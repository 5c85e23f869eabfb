------------------------------ MODULE KrxClose ------------------------------
(* One session close of the KRX futures collector (crawlers/krx_kis.py): the    *)
(* debounced writer of ordinary ticks, the window writer that stores the close  *)
(* frame at the end of the grace minute, and the REST fallback that wakes at    *)
(* that same moment and asks the captured flag whether it is needed.            *)
EXTENDS Integers

CONSTANTS MaxFaults, None   \* MaxFaults bounds failing calls and lost connections

VARIABLES
    traded,    \* the market was open; the calendar does not know every holiday
    writeOn,   \* KRX_CLOSE_REST_WRITE_ENABLED
    clock,     \* session, the grace minute after the boundary, after
    faults,
    loop,      \* _run_session: listening, in backoff, past the session
    tick,      \* KrxDbWriter._last_tick
    timer,     \* KrxDbWriter._timer: none, window, inserting, storing
    flush,     \* KrxCloseWindowWriter._flush_task, and its thread
    rest,      \* the close snapshot task and its thread, or how it ended
    rows,      \* source_rates of the asset: rate and timestamp
    redis,     \* latest:source:krx
    flag,      \* the captured flag of this close
    daily,     \* the row of source_daily_rates for the day; None
    wsStored   \* history: stores of the window writer that succeeded

krxVars == <<traded, writeOn, clock, faults, loop, tick, timer, flush, rest,
             rows, redis, flag, daily, wsStored>>

RestEnds == {"none", "skipped", "failed", "blocked", "rejected", "stored", "cancelled"}

\* A row is stamped by its insertion (an ordinary tick) or by the boundary.
Boundary == 2
Stamp == IF clock = "session" THEN 1 ELSE 3
Newest == CHOOSE r \in rows : \A s \in rows : s.at <= r.at
Inserts(rate, at) == rows' = rows \cup {[rate |-> rate, at |-> at]}

\* insert_source_rate_if_changed compares with the newest row.
InsertsIfChanged(rate, at) ==
    IF Newest.rate = rate THEN UNCHANGED rows ELSE Inserts(rate, at)

\* decide_krx_cf_append_action: a row of the day is never replaced.  The append is
\* isolated: it may fail, and nothing hears of it.
Appends(rate) == daily' \in {daily, IF daily = None THEN rate ELSE daily}

Fault == faults < MaxFaults /\ faults' = faults + 1
Result(ok) == IF ok THEN UNCHANGED faults ELSE Fault

-----------------------------------------------------------------------------
\* Redis answers or fails within a second and a general write ends well within the
\* grace minute.
ClockMoves ==
    /\ \/ clock = "session" /\ clock' = "grace"
       \/ clock = "grace" /\ clock' = "after" /\ timer = "none"
    /\ UNCHANGED <<traded, writeOn, faults, loop, tick, timer, flush, rest, rows,
                   redis, flag, daily, wsStored>>

\* A frame goes to all handlers: KrxDbWriter holds it, and in the grace minute the
\* window writer too, whose first frame starts the flush task.
Frame ==
    /\ traded /\ loop = "listening" /\ clock # "after"
    /\ tick' = IF clock = "grace" THEN "close" ELSE "last"
    /\ timer' = IF timer = "none" THEN "window" ELSE timer
    /\ flush' = IF clock = "grace" /\ flush = "none" THEN "waiting" ELSE flush
    /\ UNCHANGED <<traded, writeOn, clock, faults, loop, rest, rows, redis, flag, daily,
                   wsStored>>

\* The connection breaks: _run_session backs off, and connects again while the
\* session lasts.
Drops ==
    /\ loop = "listening" /\ Fault
    /\ loop' = "backoff"
    /\ UNCHANGED <<traded, writeOn, clock, tick, timer, flush, rest, rows, redis,
                   flag, daily, wsStored>>

Reconnects ==
    /\ loop = "backoff" /\ clock = "session"
    /\ loop' = "listening"
    /\ UNCHANGED <<traded, writeOn, clock, faults, tick, timer, flush, rest, rows,
                   redis, flag, daily, wsStored>>

\* A live connection is kept through the grace minute, a broken one is not made
\* again; leaving the session schedules the close snapshot.
LeavesSession ==
    /\ \/ loop = "listening" /\ clock = "after"
       \/ loop = "backoff" /\ clock # "session"
    /\ loop' = "past"
    /\ rest' = "scheduled"
    /\ UNCHANGED <<traded, writeOn, clock, faults, tick, timer, flush, rows, redis,
                   flag, daily, wsStored>>

-----------------------------------------------------------------------------
\* KrxDbWriter: the last tick of a window; one of the grace minute is left to the
\* window writer.
WindowEnds ==
    /\ timer = "window"
    /\ timer' = IF tick = "last" THEN "inserting" ELSE "none"
    /\ tick' = None
    /\ UNCHANGED <<traded, writeOn, clock, faults, loop, flush, rest, rows, redis,
                   flag, daily, wsStored>>

Rescheduled == IF tick = None THEN "none" ELSE "window"

TickInserts(ok) ==
    /\ timer = "inserting" /\ Result(ok)
    /\ IF ok THEN InsertsIfChanged("last", Stamp) ELSE UNCHANGED rows
    /\ timer' = IF ok /\ Newest.rate # "last" THEN "storing" ELSE Rescheduled
    /\ UNCHANGED <<traded, writeOn, clock, loop, tick, flush, rest, redis, flag,
                   daily, wsStored>>

\* write_after_db_insert reads the newest row again.
TickStores(ok) ==
    /\ timer = "storing" /\ Result(ok)
    /\ redis' = IF ok THEN Newest.rate ELSE redis
    /\ timer' = Rescheduled
    /\ UNCHANGED <<traded, writeOn, clock, loop, tick, flush, rest, rows, flag,
                   daily, wsStored>>

-----------------------------------------------------------------------------
\* The window writer: sleep to the end of the grace minute, then in a thread the
\* row, the Redis value and, if both were stored, the flag and the daily row.
FlushWakes ==
    /\ flush = "waiting" /\ clock = "after"
    /\ flush' = "inserting"
    /\ UNCHANGED <<traded, writeOn, clock, faults, loop, tick, timer, rest, rows, redis,
                   flag, daily, wsStored>>

FlushInserts(ok) ==
    /\ flush = "inserting" /\ Result(ok)
    /\ IF ok THEN Inserts("close", Boundary) ELSE UNCHANGED rows
    /\ wsStored' = IF ok THEN wsStored \cup {"row"} ELSE wsStored
    /\ flush' = "storing"
    /\ UNCHANGED <<traded, writeOn, clock, loop, tick, timer, rest, redis, flag,
                   daily>>

Captured_RedisOnly(stored) == "redis" \in stored

\* db_ok and redis_ok.
Captured(stored) == stored = {"row", "redis"}

FlushStores(ok) ==
    /\ flush = "storing" /\ Result(ok)
    /\ redis' = IF ok THEN "close" ELSE redis
    /\ wsStored' = IF ok THEN wsStored \cup {"redis"} ELSE wsStored
    /\ flush' = IF Captured(wsStored') THEN "flagging" ELSE "done"
    /\ UNCHANGED <<traded, writeOn, clock, loop, tick, timer, rest, rows, flag,
                   daily>>

FlushFlags(ok) ==
    /\ flush = "flagging" /\ Result(ok)
    /\ flag' = (flag \/ ok)
    /\ Appends("close")
    /\ flush' = "done"
    /\ UNCHANGED <<traded, writeOn, clock, loop, tick, timer, rest, rows, redis,
                   wsStored>>

-----------------------------------------------------------------------------
\* The close snapshot: the flag on entry and again after the sleep to the end of
\* the grace minute; a failed read counts as not captured.
RestReads(from, to, ok) ==
    /\ rest = from /\ Result(ok)
    /\ rest' = IF flag /\ ok THEN "skipped" ELSE to
    /\ UNCHANGED <<traded, writeOn, clock, loop, tick, timer, flush, rows, redis,
                   flag, daily, wsStored>>

RestEnters(ok) == RestReads("scheduled", "sleeping", ok)
RestWakes(ok) == clock = "after" /\ RestReads("sleeping", "asking", ok)

\* The quote: the close, or on a holiday the stale price of another day.
RestAnswers(ok) ==
    /\ rest = "asking" /\ Result(ok)
    /\ rest' = IF ok THEN "deciding" ELSE "failed"
    /\ UNCHANGED <<traded, writeOn, clock, loop, tick, timer, flush, rows, redis,
                   flag, daily, wsStored>>

Quote == IF traded THEN "close" ELSE "stale"

\* _evaluate_close_write_gates: the newest row proves that the session traded; the
\* calendar and the contract are taken to pass.
Evidence == Newest.at > 0

\* The sanity abort, the gates and the switch, in the thread.
RestDecides(sane) ==
    /\ rest = "deciding" /\ Result(sane)
    /\ rest' = IF ~sane THEN "failed" ELSE IF ~Evidence THEN "rejected"
               ELSE IF writeOn THEN "inserting" ELSE "blocked"
    /\ UNCHANGED <<traded, writeOn, clock, loop, tick, timer, flush, rows, redis,
                   flag, daily, wsStored>>

RestInserts(ok) ==
    /\ rest = "inserting" /\ Result(ok)
    /\ IF ok THEN InsertsIfChanged(Quote, Boundary) ELSE UNCHANGED rows
    /\ rest' = IF ok THEN "storing" ELSE "failed"
    /\ UNCHANGED <<traded, writeOn, clock, loop, tick, timer, flush, redis, flag,
                   daily, wsStored>>

RestStores(ok) ==
    /\ rest = "storing" /\ Result(ok)
    /\ IF ok THEN redis' = Quote /\ Appends(Quote) ELSE UNCHANGED <<redis, daily>>
    /\ rest' = IF ok THEN "stored" ELSE "failed"
    /\ UNCHANGED <<traded, writeOn, clock, loop, tick, timer, flush, rows, flag,
                   wsStored>>

\* stop() waits five seconds for each task, then cancels it: one that sleeps or
\* asks is lost, one in a thread runs on.
Stop ==
    /\ clock # "session"
    /\ loop' = "past"
    /\ rest' \in {rest, IF rest \in {"scheduled", "sleeping", "asking"}
                        THEN "cancelled" ELSE rest}
    /\ flush' \in {flush, IF flush = "waiting" THEN "done" ELSE flush}
    /\ UNCHANGED <<traded, writeOn, clock, faults, tick, timer, rows, redis, flag,
                   daily, wsStored>>

Init ==
    /\ traded \in BOOLEAN /\ writeOn \in BOOLEAN
    /\ clock = "session" /\ faults = 0 /\ loop = "listening"
    /\ tick = None /\ timer = "none"
    /\ flush = "none" /\ rest = "none"
    /\ rows = {[rate |-> "prev", at |-> 0]} /\ redis = "prev"
    /\ flag = FALSE /\ daily = None /\ wsStored = {}

Next ==
    \/ ClockMoves \/ Frame \/ Drops \/ Reconnects \/ LeavesSession
    \/ WindowEnds \/ FlushWakes \/ Stop
    \/ \E ok \in BOOLEAN :
          \/ TickInserts(ok) \/ TickStores(ok)
          \/ FlushInserts(ok) \/ FlushStores(ok) \/ FlushFlags(ok)
          \/ RestEnters(ok) \/ RestWakes(ok) \/ RestAnswers(ok) \/ RestDecides(ok)
          \/ RestInserts(ok) \/ RestStores(ok)

-----------------------------------------------------------------------------
AtRest ==
    /\ clock = "after" /\ loop = "past" /\ timer = "none"
    /\ flush \in {"none", "done"} /\ rest \in RestEnds

\* Once a path has stored the close in both places, no other write that runs beside
\* or after it takes it back (krx_kis.py:2306-2332, 2888-2900).
CloseKept ==
    AtRest /\ ((rest = "stored" /\ traded) \/ wsStored = {"row", "redis"})
        => redis = "close" /\ \E r \in rows : r.rate = "close"

\* The fallback is spared only if both stores succeeded (the F2 rule, line 2331).
FallbackTried == rest = "skipped" => wsStored = {"row", "redis"}

\* A day without trading leaves no close, whatever the provider quotes (line 2734).
NoPhantom == ~traded => redis = "prev" /\ Newest.rate = "prev" /\ daily = None

CloseSettled == CloseKept /\ FallbackTried /\ NoPhantom /\ daily \in {None, "close"}
=============================================================================
