# Exchange-rate server: TLA+ models, checks and proofs

The server (`src/app/`, FastAPI on one uvicorn worker with one asyncio event
loop and worker threads) collects exchange rates from banks, Investing, a
futures feed and USDT exchanges, stores them in Redis and SQL, and delivers them
over a WebSocket: as one legacy broadcast to everybody, and as topics
(`fx:usd:krw`, `usdt:krw`, `dxy`, `krx:...`) to those who subscribed and, for the paid
ones, are entitled. The models follow the code, not the plans kept beside it;
where a document or a comment disagrees with the code, a run shows it (see
*Disagreements*).

An action is what a coroutine does between two awaits, or what a thread does in
one critical section. Interleavings of those are all the interleavings the
event loop and the interpreter's locks can produce.

## 1. Inventory

| component | state | operations | hard because | correct when |
|---|---|---|---|---|
| **Topic subscription** `topic_dispatcher.py`, `topic_lease.py`, `topic_policy.py`, `topic_authorization.py`, `topic_wire.py`, `/ws` in `main.py` | registry socket → topic → lease; account bound to a socket; payload generations | connect, subscribe (anonymous, with token), unsubscribe, publish, disconnect | a request awaits up to three authorities, then snapshots; publishers evict meanwhile; rights are lost meanwhile | nobody without a recent right is served, the acknowledgement tells the truth, nothing leaks, every request ends |
| **Initial-snapshot single flight** `topic_initial_snapshot.py` | flights, admission semaphore, success cache, cooldowns, waiters | build, join, leave, deadline, expiry | shared tasks, cancellation by the last waiter, publishes during a build, hung workers | one build per key, permits conserved, fresh results, calls return |
| **Authorization executor** `auth_executor.py` | thread pool, ledger | start, submit, run, cancel, reset, shut down | threads and loop share the ledger; each of its notes may fail; restart | the ledger balances up to what failed notes lack, a reset opens only on a balanced one, pools do not overlap, calls return |
| **Topic triggers** `crud.py`, `topic_trigger_bridge.py`, `fx_topic_trigger.py`, `tether_topic_trigger.py`, `fx_topic_publisher.py` | pending entry per topic, flush tasks, counters, shutdown flag | store, report, request, flush, close | threads hand over to the loop, windows coalesce, flushes overlap, the drain races writers | no request lost or counted twice, payloads in order, the drain ends and leaves nothing |
| **Legacy broadcast** `main.py`, `cache.py` | connection list, the broadcast key in Redis | connect, broadcast on change, fill a miss, disconnect | the key is the cache of new sockets and the reference of the diff; sends and initial phases fail | nobody listed stays behind the payload the next diff starts from |
| **Atomic FX switch** `atomic_write_*`, `atomic_quiesce_*`, `atomic_cutover_*`, `atomic_migration.py`, `scripts/activate_atomic_fx.py` | writer-mode row and its caches, quiesce session and acknowledgements, cut-over row, the latest keys | halt, acknowledge, migrate, begin, verify, finalise, mirror, restart | an operator, two containers' worth of caches, and Redis change at different times | no plain value after the switch, the gate opens on revisioned values only, lost writes are repaired |
| **Atomic FX publication** `atomic_coordinator.py`, `atomic_watermark*.py`, `atomic_fx_live.py`, `atomic_reconcile.py` | watermark in Redis, markers in memory, sequence by lineage | read, build, send, commit, recover | a crash or a lost answer between send and commit, eviction, takeover | between two faults each content once and in order, sequence monotone |
| **Alerts** `notifications/` | settings cache, loaders, in-flight set, the row | observe, load, push, mark, edit, close | stale settings, a push before its mark, cancellation under a thread | one push per arming or interval |
| **USDT writers, latest cache** `crawlers/usdt_ws/`, `latest_rates_cache.py` | bounded task set, remembered tick, window | tick, store, flush, reconnect, close | out-of-order ticks, check before act, threads that outlive their task | the stored tick never goes back, none is forgotten |
| Redis and circuit breaker `cache.py` | failures, state, deadline | call, record | open period | - |
| **Selenium queue** `scheduler.py` | priority queue of 25, worker, heartbeat | enqueue, work, retry, supervise, shut down | the consumer is a producer; a stuck worker is replaced while shutdown joins it | no job stuck, no bank twice, no worker after shutdown |
| **KRX close** `crawlers/krx_kis.py`, `crud.py`, `source_daily_rates.py` | state of the session, captured flag, rows, Redis value, daily row | tick, close frame, window end, REST fallback, reconnect, stop | the window writer and the REST fallback store the same close; each of two stores may fail | a close that was stored is kept, a holiday leaves none, the fallback is spared only when nothing is missing |
| **Subscription verdict** `subscription.py`, `webhooks.py` | cache and pending entries of a user | verify, verify afresh, webhook, evict, restart | the cache is read before an await and written after it; the provider may fail | a definite verdict is recent, and after a webhook newer than it |
| **D7 round ledger** `d7_round_ledger.py` | records, tombs, owners, closed minute, exact cohorts, clock isolation | register, link, finish, fail, consult | calls repeat, contradict and come late; the wall clock jumps | each round counted once and in its time, one owner per round |
| Collection policy and observers; graph, history and free snapshot; the other REST routes; news, admin, schema, configuration; bank crawlers; operations | tables, one lock, or the database | one transaction or one pure function each | - | - |

(Bold: modelled, in full or in part.)

How they meet: a crawler thread stores a rate (`crud.py`) and hands a callback
to the loop through the bridge; the trigger controller opens a window, its
flush builds a payload and calls `publish_topic` of the dispatcher, which
advances the topic's generation and fans out to the leased subscribers. A
subscribe verifies through the authorization executor, registers, acknowledges,
and asks the single flight for its initial snapshots, keyed by that same
generation. `lifespan` in `main.py` starts and drains all of them in order. The FX
latest values a crawler stores are plain before the switch and compare-and-set
after it. The coordinator is written for their publication once the cut-over is
complete, but dormant: no code of the server calls it yet
(`atomic_fx_live.py:1-13`), and its model checks it as it stands. Alerts are evaluated on the same ticks the USDT writers store, and the
legacy broadcast polls the database for everyone.

`PROJECT.json` lists every component with its status, and under `hazards` the
lines where this code can go wrong in ways a test hardly reaches.

## 2. Plan

Order: what the server promises its users first.

1. `TopicSubscription`, `SnapshotSingleflight`, `AuthExecutor`, `TopicTrigger`: done.
2. The FX switch and publication, `FxActivation` and `AtomicCoordinator` with the
   abstract `PublishOnce`: done.
3. The parts that stand alone, `SeleniumQueue`, `AlertEvaluator`, `UpbitWriters`,
   `LegacyBroadcast`, `PremiumCache`, `KrxClose`, `RoundLedger`: done.
4. Next: the broadcast hook that publishes the topics of the triggers, the alert
   coalescer, the tick-level Redis writer of the KRX client.

Abstract specifications: `PublishOnce` is implemented by `AtomicCoordinator` (checked
and proved). Still worth stating: a memoised build (each call answers with a value
read after it was issued or with a failure) for `SnapshotSingleflight`; a latest-value
register for `TopicTrigger`.

Theorems: every invariant and action property that a passing run checks is proved (section 6); so is the refinement. Left to
prove would be the two further refinements.

## 3. Modules and code

`PROJECT.json` maps each definition to its lines.

**TopicSubscription.** `task[c]` is the endpoint coroutine of one connection: its
phase is the await it is suspended in (`identity`, `premium`, `worker`, `entitlement`
while authorising; `error`, `ack`, `removed` while a frame is sent; `build`, `send` per
snapshot; `closing`). `held` and `lostAt` are the world: who has which right, and
when it was lost. `registry` is `TopicRegistry`, a lease is its account and the end,
`NoLease` is the `None` of an anonymous subscription. The three rollout stages, the
three policy classes and the availability flags are constants. Publishers are the
tasks that call `publish_topic`; they evict a socket whose send fails and close the
evicted ones when the fan-out ends. The dispatcher is assumed on
(`TOPIC_DISPATCHER_ENABLED`); with the flag off nothing changes the registry.

**SnapshotSingleflight.** `flight` holds the shared tasks, `flights` the dictionary from
key to task, `queue` and `free` the semaphore with its FIFO of waiters. A result is
the generation at which its worker read the store. The deadline and the last
waiter both end a task by cancellation; `cancel` tells which. `Undisturbed` encodes
that a task with a pending interrupt is already in the ready queue and runs before a
later worker answer. Worker threads of cancelled builds may outlive their permit in the
code (its comment says so); the model forgets them, so its conservation of permits
speaks of permits, not of threads.

**AuthExecutor.** `loop` marks the caller between its reservation and its await, where
threads run and coroutines do not. Each note of the ledger may fail, and the service goes
on: the reservation (`NotReady`), the failed submission (`NotesSubmitFailed`), the start (`NotesStart`,
entered with its receipt or not at all, as its copy is rebound in one assignment), the end (`Records` may fail
between the gauge and the count; `Unrecorded` enters nothing, because `_safe_ledger` swallowed what `_record`
raised or a clock raised outside of it) and the done callback of a cancelled call (`NotesCancelled`). `lost`
is a history variable: the calls that the depth, the gauge and the count lack a note of since;
the properties say that the ledger is off by these and by nothing else. `ThreadRefused` is what CPython
does when a thread cannot be started: the item is already queued when `submit` raises.
`Starts` to `AwaitShutdown` follow `lifespan`, which may run again in one process.

**TopicTrigger.** `writer` is what a crawler thread has stored and not yet reported,
`ready` the loop's callbacks, `pending` and `flush` a controller's entry and tasks. A
payload is the number of rates stored when its build began. Failing SETs are no-ops
because only successful ones are reported. The drain order is that of `lifespan`: bridge,
barrier, FX controller, tether controller, feeds.

**FxActivation.** One key stands for all FX latest keys and carries `[kind, rev]`: none, v1
(a plain value) or v2 (revisioned), and the database revision it was built from. `control`,
`quiesce`, `acks`, `cutover` and `ready` are the durable rows; every compare-and-set of the
scripts is a guard on exactly the columns it compares, and what one transaction commits
is one action. `snap` is the process's cache of the writer mode with its latch and
generation. The application goes through `booting` (refresh), `warming` (the first mirror
round), `warmed` (second refresh), `scheduled` (jobs run, acknowledgement) and `up` (poll); it may
stop anywhere. `direct` and `mirror` are writers between their mode check and their SET. A crawler
subprocess uses a mode of its own, read when it was started. `seen` is what a script run read
before it acts: another run may finish in between, or the run die.

**AtomicCoordinator.** `call[c]` is a `publish_asset` call at its awaits; `lock` is the lock
of the asset. A content is the number of its revision vector. `wm` is the watermark in Redis, `marker` the
entry of `_markers`, `issued` the sequence source. A watermark write may be
acknowledged, applied and reported failed, or lost. Eviction, restart and takeover of the
lineage are the faults. The lineage of a delivery is read after the send, as the code
does.

**PublishOnce.** What subscribers are promised: `Deliver` (a content newer than all known
ones, and known from then on), `DeliverUnrecorded` (while a watermark of another lineage
is in the way nothing is recorded, so a content may come twice; the code defers its write
there), `RecordAgain`, `Fault`. `Known` and `Recording` in `AtomicCoordinator` are the
refinement mapping: the delivery in hand, else the marker, else the watermark; and whether
no foreign watermark is in the way.

**SeleniumQueue.** `queue` holds the waiting items, `worker` the task the global refers to,
`current` the running bank. `CancelLands` frees the worker but not its subprocess
(`orphans`). `HealthCancels` and `HealthResumes` are the two halves of the health check around
its join; `Signal`, `ShutdownCancels` and `ShutdownJoins` those of shutdown.

**AlertEvaluator.** One alert and the tasks that evaluate ticks for it. A task goes from the
settings (cached, loading, loaded) through the in-flight guard to the second read, the push
and the mark. `row` is the durable setting, `Put` every edit of it a user can make, `epoch` counts
armings and repeat intervals. `DrainTimesOut` cancels tasks; a call a thread has begun goes on
(`threads`).

**UpbitWriters.** `waiting` and `calls` are the Redis writer: tasks before the lock and helper calls
on threads. A call is at its check (`Guard`; on a cold start `Gets` reads the stored value and `Recalls`
remembers it first), its SET (`Set`) or its memory (`Remember`). A SET escapes the order of the memory in three ways: its
call was cut off by the end of a session and no longer owns the lock, its reply was lost, or the GET of a cold start
failed over a stored value. `strayed` marks them, and `LatestNeverRegresses` speaks of the rest. `pending` and
`timer` are the database writer's window. A session ends and the next begins in the same process.

**LegacyBroadcast.** A payload is the number of the database state it shows. `job` is
`broadcast_rates_once` at its awaits, `sock[c]` an endpoint, `listed` the connection list. Redis may
fail on any read or store, and the initial phase of an endpoint may raise before its payload is sent
(`InitialFails`): the code logs it and receives all the same. Three races leave a listed socket behind the
cached payload, and `NobodyLeftBehind` names them: an endpoint has filled a miss (`filler`), or the
socket's initial payload came after a newer broadcast or never (`unserved`, until a broadcast reaches it).

**PremiumCache.** One user. `premium` is what RevenueCat would say now, `cache` and `pending`
are the entries of `_cache` and `_pending`, `call` the verifications at their await. A determined reply
replaces the entry, a useless one serves the held value without renewing it, a first "not" is
pending for a while. `seen` and `since` remember what was true when. One race stays open in the
code: a verification under way when the webhook empties the cache stores its older reply
afterwards; `tainted` marks it, and the second half of `VerdictTrusted` speaks of the rest. The docstring
of `invalidate_user_cache` does not mention the race.

**KrxClose.** One session close: the debounced writer of ticks (`tick`, `timer`), the writer of the
close window (`flush`), the REST fallback (`rest`), the rows, the Redis value, the captured flag and the daily row.
Assumed: the last general write ends within the minute of grace, there is one close frame, the calendar and contract
gates pass, and the switches are at their defaults (`KRX_CLOSE_FINALIZER_ENABLED` on,
`KRX_REDIS_TICK_WRITE_ENABLED` off). The source itself says that the order of database rows need not
show the close and that Redis is what counts; `CloseSettled` follows it.

**RoundLedger.** `book` holds records and tombs (`entry`), the index of rounds (`owner`), the closed minute (`end`) and
the start of exact cohorts (`exact`). Every accepted call first does what `Advanced` says: close,
expire, prune; then its own part. `Suspect` and `Refuse` are the clock isolation, whose count of steady pairs
becomes a choice. A lifecycle matters only where it is terminal; exit evidence only as a reason to refuse a
finish; the byte budget only as admission that may stop at any time. A receipt whose monotonic half goes
back changes nothing and is left out. `IdentityIntact` says that the check that would stop the ledger for good never
fires.

**MCBackground** explores the last seven modules in one run. They share no state, so each
behaviour is one of a single part, picked in the initial state; nothing is
gained or lost by interleaving them. The variables of the other parts hold nothing.

The `MC` modules only add symmetry sets or instances; the `.cfg` files give the constants
their values and replace nothing. Definitions that no specification uses and whose name
has a suffix (`Drained_RowOnly`) are variants with a plausible bug, used to see that each property
can fail.

## 4. Runs

| run | instance | shows |
|---|---|---|
| `topic_time` | 1 connection, 1 account, `krx` with all axes, `enforce`, lease 2, time 0..3 | `RevocationBound`, `EveryFrameAuthorised`, `RequestTerminates`, `EvictedIsClosed` |
| `topic_requests` | 1 connection, `fx`, `usdt` and `krx`, `reject_anonymous_fx`, lease 2, time 0..2 | `AckConsistent`, `AnonymousOnlyWhereFree`, `RenewalNeverWeakens` |
| `topic_fanout` | 2 connections, 2 accounts, 1 publisher, `compatibility` | `NoGhostSubscriber`, `OneOwner` |
| `snapshot` | 1 key, 2 callers, 2 flights, 1 permit, 1 publish | `Bookkeeping`, `OneBuildPerKey`, `FreshSnapshot`, `EverythingEnds` |
| `auth_ledger` | 2 calls, 2 threads, failing notes, restarts | `LedgerBalanced`, `InFlightAccounted`, `PoolsNeverOverlap`, `CallReturns`, `ShutdownEnds` |
| `trigger_drain` | 1 FX topic and `usdt:krw`, 2 threads, 1 feed, 2 rates per topic | `Bookkeeping`, `FxDrained`, `PublishedInOrder`, `FlushCoversItsRequests`, `DrainEnds` |
| `fx_activation` | 1 key, 2 revisions, 3 application starts | `QuietOnceDrained`, `VerifiedMeansMigrated`, `GateOpensOnlyOnV2`, `SwitchSound`, `NoDowngrade`, `MirrorRepairs` |
| `fx_coordinator` | 2 callers, 3 contents, sequence to 4, 3 faults | `PublishesOnce` (the refinement), `MarkerNeverOutrun`, `SequenceNeverRegresses` |
| `background` | 4 banks, limits 2 and 3; 1 alert, 2 tasks, 2 thresholds, 3 armings; 4 times in buckets of 2, 2 pending writes; 2 sockets, 3 states; 2 verifications, time 0..5; 1 close, 2 faults; 2 invocations and 2 rounds for 3 minutes, or 1 for 4 with a clock that jumps by 2 | `QueueSound`, `OnePushPerArming`, `LatestNeverRegresses`, `NoTickForgotten`, `NobodyLeftBehind`, `VerdictTrusted`, `CloseSettled`, `LedgerTruth` |
| `topic_fx_disabled` | `fx` supported and not enabled | violates `AckConsistent` |
| `auth_refused_thread` | 2 calls, 2 threads | violates `QueuedNeverNegative` |
| `trigger_stranded` | 1 FX topic, 2 threads | violates `RequestHasFuturePublish` |

Bounds and why they are enough. `MaxTime` exceeds `LeaseMax`, so a lease is
granted, lives, expires and is renewed, and a verification can take as long as a whole
lease. Each of the three rollout
stages is the stage of some run, and so are an ungated, a gated and an fx topic. One connection suffices for time: leases of different sockets do not touch
each other. Two connections and two accounts are what eviction and the identity
binding relate. `MaxGen = 1` lets one publish fall anywhere in a build or a request. Two
flights over one permit let one be cancelled while the other replaces it and waits.
Two calls on two threads run both at once, or one behind the other in the queue (a submit may count on an
idle thread), so that failed notes of two calls meet, and a shutdown meets one that runs and one that is queued. Two rates per
topic: the first opens a window, the second coalesces, arrives during the send or
opens the next flush.

Three application starts are one before the halt, one that acknowledges it and one after the
cut-over; two revisions let a stale writer carry the older one. Three faults let an
eviction, a takeover and a restart meet in one behaviour, and four sequence numbers outlast
them. The queue's limits 20 and 25 become 2 and 3: what matters is one place between
them, and four banks fill it. Three armings let the mark of the first reach the third. Four
exchange times in buckets of two give an equal, an older and a newer bucket, and let a call that is cut off between
its SET and its memory lead a later one back. The ages of the
subscription cache are 1, 2 and 1 and a request takes at most 1, so that within a clock of 5 an entry is fresh, stale
and dropped, and a chain of fallbacks would show. Two faults of a close are one for each store. For the ledger the grace is 1 minute,
expiry 3, pruning 1 later: in 4 minutes a record lives through all of it; a jump of 2 exceeds the skew of 1.

Deadlock is checked in the snapshot and the executor runs. It is not in the others: a
connection object lives once and the clock ends, the process shuts down, or the bounds on
revisions, starts, sequences and armings run out.

## 5. Fairness

Timers fire, coroutines that are ready run, threads with work run, and a send
completes or fails. Nothing is assumed of clients, peers, Firebase,
RevenueCat, the database or workers that build snapshots: they may never answer. Two
assumptions deserve their reason:

- A send ends. `publish_topic` and the unsubscribe acknowledgement set no deadline of
  their own; what ends a send to a silent peer is the WebSocket keep-alive of uvicorn
  (ping interval and timeout at their default of 20 s; the `Dockerfile` command does
  not turn it off).
- A verification in the executor ends: the SDK's HTTP timeout, in
  `auth_ledger` only.

In `trigger_drain` publishes may hang; only the close timer and cancellations are fair.
`fx_activation` assumes a container that runs (restart policy of `docker-compose.yml`), scheduled
jobs that keep running, a control row that is not unreadable for ever and a Redis that does not
fail for ever (strong fairness of the mirror: it may fail any number of times in between). The
operator owes nothing: the script may stop half-way and never come back. The other runs
state safety only.

## 6. Proofs

Eight modules hold proofs. Each theorem holds for every value of the constants that satisfies the named
assumptions of the module it is about:

| proofs | about | assumptions |
|---|---|---|
| `TopicSubscriptionProofs` | `TopicSubscription` | `TopicAssumption`, `TimeAssumption`, `NoneAssumption` |
| `AuthExecutorProofs` | `AuthExecutor` | `WorkersAssumption`, `NoCallAssumption` |
| `AtomicCoordinatorProofs` | `AtomicCoordinator`, `PublishOnce` | `BoundsAssumption`, `NoneAssumption` |
| `FxActivationProofs` | `FxActivation` | `BoundsAssumption` |
| `SnapshotSingleflightProofs` | `SnapshotSingleflight` | `PermitsAssumption`, `NoneAssumption` |
| `TopicTriggerProofs` | `TopicTrigger` | `TopicAssumption`, `WriterAssumption`, `BoundAssumption` |
| `BackgroundProofs` | the seven parts of `MCBackground` | `SeleniumAssumption`, `UpbitAssumption`, `AlertsAssumption`, `PremiumAssumption`, `LedgerAssumption` |
| `QueueLemmas` | FIFO queues: what removing an item leaves | none |

The assumptions are types of the bounds, that `None` is none of the values it stands beside, and the orders the code's own
defaults have (a soft limit below the queue's capacity). No set of connections, callers, topics or banks has to be
finite. That finitely many calls were accepted so far, which counting them needs, is part of an invariant, not assumed.

**Subscription**: `TypeCorrect`, `RevocationBounded`, `AnonymousBounded`, `OwnersNeverMix`,
`EndedIsUnregistered`, `FramesAuthorised`, `RenewalsHold`, `AckTruthful`. The bound on revocation is not inductive:
a registry entry is sound because the request that made it was, so `IInv` adds `RequestsSound` (each
observation a suspended request carries was true when taken, and is not in the future) and `RegistrySound` (each lease
ends no later than `LeaseMax` after a moment at which each right it needs was held, and belongs to the account
bound to the socket). `LeaseExpiry` is the minimum over the axes needed, which is where the two meet. `FramesAuthorised` applies these at the moment a
publisher or a snapshot starts a frame. The other two rest on one lemma, `StepHandled`: whatever the step, a connection loses
subscriptions at most, or subscribes anonymously, or settles with an observation of each axis that what it accepts needs (`Handled`).
`RenewInv` adds that a lease ends within `LeaseMax` of each observation that a request under way has taken since, so the lease that replaces it
ends no earlier. `AckInv` adds that what is registered is available; it holds, and with it `AckTruthful`, under the
assumption `AllAvailable` (each topic free for anonymous clients is enabled), without which it is false: the first disagreement below.

**Executor**: `TypeCorrect`, `PoolsSeparated`, `InFlightIsAccounted`, `LedgerIsBalanced`, `ResetsAreBalanced`, `QueuedNonNegative`. `Structure`
(queue without repetition and equal to the queued calls, what each phase of `lifespan` excludes, what each call state
implies, and which calls can have lost which note) is inductive alone; `Counted` adds the equations of the ledger, in which each note
that failed is a member of `lost`. Its steps are lemmas on how the cardinalities of the sets of calls change when one call
moves or fails to be noted. No note is assumed to succeed. `ResetsAreBalanced` follows: where the
gauge and the depth read zero, every set these equations add up is empty, so nothing waits or runs and neither is
off (`ResetOnlyBalanced`, a consequence of the two invariants that is proved and is no property of a run). `QueuedNonNegative` is the positive side
of the second disagreement below: the depth is never negative unless a thread was refused.

**Coordinator**: `TypeCorrect`, `MarkersNotOutrun`, `SequenceMonotone`, `CoordinatorPublishesOnce`. `IInv` says by phase what
the one call inside the lock knows (`Inside`: the watermark it read is the one in Redis or was evicted, what it sends is
newer, what it writes follows what it read), that the others know nothing (`Outside`), and that no sequence stored exceeds
one issued (`Sequences`). `MarkerNeverOutrun` alone is not inductive, since a failed write creates the
marker from what was read many steps earlier. The refinement has one lemma per action; a send is `Deliver` or
`DeliverUnrecorded`, a fault is `Fault`, all else is invisible or `RecordAgain`.

**FX switch**: `Quiesced`, `Verified`, `GateSound`, `Resumable`, `Monotone`. None of the five is inductive, because a script run, a
job or a subprocess acts on what it read earlier. What makes them so is that the rows only move forward:
`Durable` says that the generation of the control row tells mode, quiesce and cut-over; `Cache` that no cached mode is
ahead of its row; `JobsSound` what a job may still carry from before; `Quiet` that from the first acknowledgement no plain write is
under way; `Migration` and `Script` what each step of the migration and each suspended script knows. `NoDowngrade` is an action property
that follows: revisioned values exist only after that acknowledgement, so no plain write can meet one.

**Single flight**: `BookkeepingSound`, `SingleBuild`, `Fresh`. `Counted` and `Admission` (waiters and permits are the cardinalities of
the sets they count), `QueueSound` (who queues for a permit is queued once and not cancelled), `Registered` (a flight in the dictionary lives, under its own
key), `Reads` and `Entries` (what a flight has read, and what the cache holds, is no older than the generation in the key), `WaitersSound` (a caller waits for
the generation it asked for). A cooldown and a cached success exclude each other only because of `StillEmpty`: a build that may still arm a
cooldown finds no entry under its key.

**Triggers**: `RequestsAccounted`, `Drained`, `PublicationsInOrder`, `WindowCoversRequests`. Payloads are in order because
an FX topic never has two flushes (`FxTasks`) and a payload on its way is no older than the one before it
(`InOrder`). The drain leaves nothing because the barrier is the last callback of the loop (`ReadySound`): what a
thread handed over before the bridge closed is run before it, and the tasks that `close()` then collects are all there are.

**Background**, each with an invariant of its own part (`SeleniumIInv`, `AlertIInv`, ...):

- `QueueStaysSound`: while a job runs the queue keeps room for the retry its worker may put back (`SeleniumRoom`), for every `SoftLimit < Capacity`; shutdown has
  cancelled the worker before it joins it (`SeleniumEnds`).
- `PushedOnce`: `Due(e)` counts the pushes of an arming that were sent or can still be sent; it never exceeds 1 plus the lost marks, and
  not even these while a push is on its way or the row allows another (`AlertMarks`).
- `LatestInOrder`, `TicksKept`: one call holds the lock, and it alone may be ahead of the memory (`UpbitOrder`).
- `BroadcastReachesAll`: each listed socket has the cached payload, is being sent it, or is owed it by the running broadcast; one that
  a broadcast reached before its initial payload has that (`LegacyServed`), so that a failed initial phase sets apart only sockets
  that have received nothing.
- `VerdictsHold`: a cache entry, a pending one, and each answer on its way are as recent as their stamp.
- `CloseStands`: ticks are ordered before the close, and each of the two writers of the close knows which stores succeeded.
- `LedgerTold`: `Kept` relates records, tombs, rounds and the closed minute (what is included has finished and its minute is open; what
  was retired lies before the exact cohorts; a round and its owner name each other). It is kept by each of close, expire and prune, and by
  each part of a call, so it holds whatever sequence an accepted call makes of them; `LedgerCounts` says that a counted record is gone and was
  due. The theorem needs no bound on the clocks: the wall clock may jump by any offset.

A behaviour of `MCBackground` is one of a single part, so the invariant of a part is proved under the condition that it was
picked (`LedgerInv == service \in {...} => LedgerIInv`).

Not proved, only model-checked: all liveness (`RequestTerminates`, `EvictedIsClosed`, `EverythingEnds`, `CallReturns`, `ShutdownEnds`, `DrainEnds`,
`MirrorRepairs`), which needs fairness and is out of the prover's reach.

## 7. Disagreements between code and documents

1. `topic_fx_disabled`: the anonymous branch registers an fx topic whose
   availability flag is off (`topic_dispatcher.py:653`); a later acknowledgement
   reports it both rejected and active, which the comment at lines 925-926 excludes.
2. `auth_refused_thread`: `queued_now >= 0` (`tests/test_auth_executor_ledger.py:6`) fails
   when `submit` raises after it queued the item (`auth_executor.py:453`).
3. `trigger_stranded`: "Request a future publish" (`fx_topic_trigger.py:236`) does
   not hold for a trigger that arrives while the flush is sending (line 265).

## 8. Not modelled

Inside the modelled components:

- counters and log lines that steer nothing, and replies that change no state (malformed
  message, rate limit);
- the shadow mode of the triggers, and the hook of the legacy broadcast that publishes the same
  topics;
- the order of an older snapshot after a newer live frame, and worker threads that outlive
  their build's permit: the source accepts both;
- of the FX switch: the migration lease (`begin-atomic` does not ask for it), `reset-to-idle` and the
  failed status, rows that are missing or malformed (each reader closes on them), the
  direct writer's own revision guard inside one transaction;
- of the coordinator: cancellation inside a publication, pending reasons and feature flags,
  which are read at start;
- of the alerts: a push that FCM delivered but whose reply was lost (`fcm.py:787-801`), which the
  code takes for a failure; the coalescer's window, comparison alerts, deletion of a setting, devices; a
  mark that lands after the user armed the alert again disarms it, which the model
  shows and no property forbids, as the source promises nothing of it;
- of the browser queue: what a subprocess does, and its own timeout;
- of the writers: the other exchanges, whose writers have the same shape, sockets and parsing;
- of the subscription verdict: other users, whose entries are their own, and the entitlement routes
  around it;
- of the KRX client: the tick-level Redis writer and the three REST retries, both behind switches that
  are not at their default, the stale-session fallback, tokens, the contract roll-over, the frame parser;
- of the ledger: its counts and byte arithmetic, several sources, and the adapter. The server does not call
  it yet; `scripts/d7_ledger_measure_gate.py` does.

The components left out are listed in section 1 and in `PROJECT.json` with the reason: they
are input/output, tables, single transactions, pure functions or reports.
