---------------------------- MODULE UpbitWriters ----------------------------
(* The two writers of the Upbit client (crawlers/usdt_ws/upbit.py) and the    *)
(* helper that stores latest:source:upbit (latest_rates_cache.py).  A tick is *)
(* its exchange time; a reconnect snapshot or a REST probe may bring an older *)
(* one.  Redis writes run one at a time behind a lock, on worker threads;     *)
(* database writes take the last tick of a window.  The end of a session      *)
(* flushes the database writer and drains the Redis writer, and cancels what  *)
(* hangs: the thread under a cancelled call runs on into the next session.    *)
EXTENDS Integers, Sequences, FiniteSets

CONSTANTS
    MaxTime,    \* bound: exchange times are 1..MaxTime
    Grain,      \* exchange times per bucket: the 5 s of _floor_5s
    MaxPending, \* MAX_PENDING_WRITES
    MaxStrays   \* bound: calls left behind by ended sessions

VARIABLES
    waiting,    \* tasks that wait for the write lock
    calls,      \* helper calls on worker threads; owned: their task lives
    redis,      \* the stored tick, 0 for none
    memo,       \* _last_written_usdt_state
    strayed,    \* history: redis and memo were not written one after the other
    pending,    \* UpbitDbWriter._pending_tick, 0 for none
    timer,      \* its task: "none", "sleeping", "writing"
    phase       \* "open", "flushing", "draining"

redisVars == <<waiting, calls, redis, memo, strayed>>
dbVars == <<pending, timer>>
upbitVars == <<redisVars, dbVars, phase>>

Time == 1..MaxTime
Bucket(t) == t \div Grain
Owned == {c \in calls : c.owned}

LockFree_Always == TRUE

LockFree == Owned = {}

Saturated == Len(waiting) + Cardinality(Owned) >= MaxPending

\* A tick reaches both writers: schedule() of each.
Schedule(t) ==
    /\ phase = "open"
    /\ waiting' = IF Saturated THEN waiting ELSE Append(waiting, t)
    /\ pending' = t
    /\ timer' = IF timer = "none" THEN "sleeping" ELSE timer
    /\ UNCHANGED <<calls, redis, memo, strayed, phase>>

-----------------------------------------------------------------------------
\* _write_async has the lock and hands the tick to a thread.
Begin ==
    /\ LockFree
    /\ waiting # <<>>
    /\ calls' = calls \cup {[tick |-> Head(waiting), at |-> "guard", got |-> 0,
                               owned |-> TRUE]}
    /\ waiting' = Tail(waiting)
    /\ UNCHANGED <<redis, memo, strayed, dbVars, phase>>

\* Coalesced, or older than the state that the call knows.
Skipped(t, state) == state # 0 /\ (t = state \/ Bucket(t) < Bucket(state))

Decided(c, state) ==
    calls' = (calls \ {c}) \cup (IF Skipped(c.tick, state) THEN {}
                                 ELSE {[c EXCEPT !.at = "set"]})

Guard(c) ==
    /\ c.at = "guard" /\ memo # 0
    /\ Decided(c, memo)
    /\ UNCHANGED <<waiting, redis, memo, strayed, dbVars, phase>>

\* A cold start reads the stored value first.  Without any, or when the GET fails,
\* there is nothing to guard with.
Gets(c) ==
    /\ c.at = "guard" /\ memo = 0
    /\ \/ /\ redis # 0
          /\ calls' = (calls \ {c}) \cup {[c EXCEPT !.at = "got", !.got = redis]}
          /\ UNCHANGED strayed
       \/ /\ calls' = (calls \ {c}) \cup {[c EXCEPT !.at = "set"]}
          /\ strayed' = (strayed \/ redis # 0)
    /\ UNCHANGED <<waiting, redis, memo, dbVars, phase>>

Recalls(c) ==
    /\ c.at = "got"
    /\ memo' = c.got
    /\ strayed' = (strayed \/ ~c.owned)
    /\ Decided(c, c.got)
    /\ UNCHANGED <<waiting, redis, dbVars, phase>>

\* The SET lands, lands without a reply, or fails.
Set(c) ==
    /\ c.at = "set"
    /\ \/ /\ redis' = c.tick
          /\ strayed' = (strayed \/ ~c.owned)
          /\ calls' = (calls \ {c}) \cup {[c EXCEPT !.at = "stored"]}
       \/ /\ redis' = c.tick
          /\ strayed' = TRUE
          /\ calls' = calls \ {c}
       \/ /\ calls' = calls \ {c}
          /\ UNCHANGED <<redis, strayed>>
    /\ UNCHANGED <<waiting, memo, dbVars, phase>>

Remember(c) ==
    /\ c.at = "stored"
    /\ memo' = c.tick
    /\ calls' = calls \ {c}
    /\ UNCHANGED <<waiting, redis, strayed, dbVars, phase>>

-----------------------------------------------------------------------------
\* _flush_after_window: the last tick of the window goes to a thread.
WindowEnds ==
    /\ timer = "sleeping"
    /\ pending' = 0
    /\ timer' = "writing"
    /\ UNCHANGED <<redisVars, phase>>

Rescheduled_Never == "none"

\* The finally block: a tick that came during the write opens a new window.
Rescheduled == IF pending # 0 THEN "sleeping" ELSE "none"

\* It was stored or refused; the order of rows is that of their exchange times.
WriteEnds ==
    /\ timer = "writing"
    /\ timer' = Rescheduled
    /\ UNCHANGED <<redisVars, pending, phase>>

-----------------------------------------------------------------------------
\* The session ends: the timer is cancelled and the pending tick is flushed at
\* once.
CloseBegins ==
    /\ phase = "open" /\ Cardinality(calls \ Owned) < MaxStrays
    /\ phase' = "flushing"
    /\ timer' = "none"
    /\ pending' = 0
    /\ UNCHANGED redisVars

FlushEnds ==
    /\ phase = "flushing"
    /\ phase' = "draining"
    /\ UNCHANGED <<redisVars, pending, timer>>

\* UpbitRedisWriter.close: every task ended, or the timeout cancels them.
Drained ==
    /\ phase = "draining"
    /\ waiting = <<>> /\ Owned = {}
    /\ phase' = "open"
    /\ UNCHANGED <<redisVars, dbVars>>

\* A call that no thread has begun is dropped with its task.
DrainTimesOut ==
    /\ phase = "draining"
    /\ waiting' = <<>>
    /\ \E S \in SUBSET Owned :
          /\ \A c \in Owned \ S : c.at = "guard"
          /\ calls' = (calls \ Owned) \cup {[c EXCEPT !.owned = FALSE] : c \in S}
          /\ strayed' = (strayed \/ \E c \in S : c.at = "stored")
    /\ phase' = "open"
    /\ UNCHANGED <<redis, memo, dbVars>>

Init ==
    /\ waiting = <<>> /\ calls = {} /\ redis \in {0} \cup Time /\ memo = 0
    /\ strayed = FALSE
    /\ pending = 0 /\ timer = "none"
    /\ phase = "open"

Next ==
    \/ \E t \in Time : Schedule(t)
    \/ Begin \/ \E c \in calls : Guard(c) \/ Gets(c) \/ Recalls(c) \/ Set(c) \/ Remember(c)
    \/ WindowEnds \/ WriteEnds
    \/ CloseBegins \/ FlushEnds \/ Drained \/ DrainTimesOut

-----------------------------------------------------------------------------
\* latest:source never goes back to an older bucket, across sessions, reconnect
\* snapshots and probes (latest_rates_cache.py:504-511), as long as every SET was
\* ordered by the memory: the guard is a check before an act, and what keeps the two
\* together is the lock.  A call that outlived its task, a SET without a reply and
\* a cold start without its GET escape it.
LatestNeverRegresses ==
    [][strayed' \/ Bucket(redis') >= Bucket(redis)]_redis

\* A tick that waits for the database always has a window that will take it,
\* whenever it came: while a timer sleeps, while its write runs, or just as it
\* ended.
NoTickForgotten == pending # 0 => timer # "none"
=============================================================================
