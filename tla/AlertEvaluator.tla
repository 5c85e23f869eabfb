--------------------------- MODULE AlertEvaluator ---------------------------
(* One price alert and the evaluator of one market (notifications/            *)
(* alert_evaluator.py).  An observation becomes a task: settings from the     *)
(* cache or from a shared loader, the in-flight guard, a second read of the   *)
(* row, the push, the mark on the row.  Reads, the push and the mark run on   *)
(* worker threads; the user edits the row between any two of them; the end of *)
(* a session drains the tasks and then cancels what is left, whose threads    *)
(* run on.  The condition is "rate >= threshold".                             *)
EXTENDS Integers, FiniteSets

CONSTANTS
    Task,       \* tasks alive at a time
    Level,      \* thresholds, numbers
    Rate,       \* observed rates, numbers
    MaxFaults,  \* bound: marks lost per epoch
    MaxThreads, \* bound: calls left behind by ended sessions
    MaxEpoch,   \* bound: armings of the alert
    None

VARIABLES
    row,        \* source_notification_settings: enabled, triggered, threshold,
                \* repeat, recent: last_notified_at within the interval
    cached,     \* the bucket of AlertSettingsCache: None when absent or expired
    loader,     \* the task of _load_and_cache: None, Asked or what it read
    task,       \* by Task: the phase of its evaluation
    threads,    \* calls whose task was cancelled under them
    session,    \* "open", "draining"
    epoch,      \* history: number of the arming or of the repeat interval
    pushed,     \* history: pushes delivered in each epoch
    unmarked    \* history: pushes of each epoch whose mark is not awaited

alertVars == <<row, cached, loader, task, threads, session, epoch, pushed, unmarked>>

Epoch == 1..MaxEpoch
Idle == [at |-> "idle"]
Asked == [at |-> "asked"]
\* A bucket holds the threshold of the alert, or nothing.
Bucket == [has : BOOLEAN, threshold : Level]

Loaded == [has |-> row.enabled /\ ~row.triggered, threshold |-> row.threshold]
Matches(b, rate) == b.has /\ rate >= b.threshold

InFlight_SendOnly == \E t \in Task : task[t].at = "sending"

InFlight == \E t \in Task : task[t].at \in {"refetching", "sending", "persisting"}

\* Conditions and guard, in one step after the settings are there.
Evaluated(b, rate) ==
    IF Matches(b, rate) /\ ~InFlight
    THEN [at |-> "refetching", rate |-> rate]
    ELSE Idle

\* schedule and _get_settings_for_key: the cache, else the loader, shared.
Observe(t, rate) ==
    /\ session = "open"
    /\ task[t] = Idle
    /\ IF cached # None
       THEN /\ task' = [task EXCEPT ![t] = Evaluated(cached, rate)]
            /\ UNCHANGED loader
       ELSE /\ task' = [task EXCEPT ![t] = [at |-> "loading", rate |-> rate]]
            /\ loader' = IF loader = None THEN Asked ELSE loader
    /\ UNCHANGED <<row, cached, threads, session, epoch, pushed, unmarked>>

LoaderReads ==
    /\ loader = Asked
    /\ loader' = Loaded
    /\ UNCHANGED <<row, cached, task, threads, session, epoch, pushed, unmarked>>

\* The loader fills the cache, whatever was invalidated since it read; the
\* first waiter to resume evaluates, the others follow one by one.
LoaderPuts ==
    /\ loader \in Bucket
    /\ cached' = loader
    /\ loader' = None
    /\ task' = [t \in Task |->
                  IF task[t].at = "loading"
                  THEN [at |-> "loaded", rate |-> task[t].rate, bucket |-> loader]
                  ELSE task[t]]
    /\ UNCHANGED <<row, threads, session, epoch, pushed, unmarked>>

Resume(t) ==
    /\ task[t].at = "loaded"
    /\ task' = [task EXCEPT ![t] = Evaluated(task[t].bucket, task[t].rate)]
    /\ UNCHANGED <<row, cached, loader, threads, session, epoch, pushed, unmarked>>

Expires ==
    /\ cached # None
    /\ cached' = None
    /\ UNCHANGED <<row, loader, task, threads, session, epoch, pushed, unmarked>>

\* delivery_allowed.
DeliveryAllowed ==
    /\ row.enabled
    /\ IF row.repeat THEN ~row.recent ELSE ~row.triggered

\* refetch_snapshot and the second look at the condition, on the fresh row.
Refetch(t) ==
    /\ task[t].at = "refetching"
    /\ task' = [task EXCEPT ![t] =
                  IF DeliveryAllowed /\ task[t].rate >= row.threshold
                  THEN [at |-> "sending", epoch |-> epoch]
                  ELSE Idle]
    /\ UNCHANGED <<row, cached, loader, threads, session, epoch, pushed, unmarked>>

\* send_fcm_multicast_sync: delivered to some device, or to none.
Send(t) ==
    /\ task[t].at = "sending"
    /\ \/ /\ task' = [task EXCEPT ![t] = [at |-> "persisting", epoch |-> @.epoch]]
          /\ pushed' = [pushed EXCEPT ![task[t].epoch] = @ + 1]
       \/ /\ task' = [task EXCEPT ![t] = Idle]
          /\ UNCHANGED pushed
    /\ UNCHANGED <<row, cached, loader, threads, session, epoch, unmarked>>

\* mark_source_setting_triggered: by id, whatever the row has become.
Marked == [row EXCEPT !.enabled = IF row.repeat THEN @ ELSE FALSE,
                      !.triggered = IF row.repeat THEN @ ELSE TRUE,
                      !.recent = TRUE]

Persist(t) ==
    /\ task[t].at = "persisting"
    /\ task' = [task EXCEPT ![t] = Idle]
    /\ \/ row' = Marked /\ UNCHANGED unmarked
       \/ /\ unmarked[task[t].epoch] < MaxFaults
          /\ UNCHANGED row
          /\ unmarked' = [unmarked EXCEPT ![task[t].epoch] = @ + 1]
    /\ UNCHANGED <<cached, loader, threads, session, epoch, pushed>>

\* The repeat interval since last_notified_at has passed.
IntervalPasses ==
    /\ row.recent /\ epoch < MaxEpoch
    /\ row' = [row EXCEPT !.recent = FALSE]
    /\ epoch' = epoch + 1
    /\ UNCHANGED <<cached, loader, task, threads, session, pushed, unmarked>>

\* update_source_notification_setting: a PUT that keeps, sets or clears enabled.
Put(asks, level, repeat) ==
    LET rearmed == \/ level # row.threshold \/ repeat # row.repeat
                   \/ asks = "on" /\ ~row.enabled
        wanted  == IF asks = "keep" THEN row.enabled ELSE asks = "on"
    IN  /\ epoch < MaxEpoch
        /\ row' = [enabled   |-> wanted \/ (repeat # row.repeat /\ asks # "off"),
                   triggered |-> row.triggered /\ ~rearmed,
                   threshold |-> level, repeat |-> repeat,
                   recent    |-> row.recent /\ ~rearmed]
        /\ epoch' = IF rearmed THEN epoch + 1 ELSE epoch
        /\ cached' = None
        /\ UNCHANGED <<loader, task, threads, session, pushed, unmarked>>

\* close: drain the tasks first.
CloseBegins ==
    /\ session = "open" /\ Cardinality(threads) < MaxThreads
    /\ session' = "draining"
    /\ UNCHANGED <<row, cached, loader, task, threads, epoch, pushed, unmarked>>

Drained ==
    /\ session = "draining"
    /\ \A t \in Task : task[t] = Idle
    /\ session' = "open"
    /\ UNCHANGED <<row, cached, loader, task, threads, epoch, pushed, unmarked>>

Called == {t \in Task : task[t].at \in {"sending", "persisting"}}

\* The drain times out: every task is cancelled; a call that a thread has begun
\* runs to its end, and the next session starts with an evaluator of its own.
DrainTimesOut ==
    /\ session = "draining"
    /\ \A t \in Called : unmarked[task[t].epoch] < MaxFaults
    /\ \E S \in SUBSET Called :
        /\ threads' = threads \cup {[call |-> t, at |-> task[t].at,
                                   epoch |-> task[t].epoch] : t \in S}
        /\ unmarked' = [e \in Epoch |-> unmarked[e]
                          + Cardinality({t \in Called : /\ task[t].epoch = e
                                                        /\ t \in S \/ task[t].at = "persisting"})]
    /\ task' = [t \in Task |-> Idle]
    /\ loader' = None
    /\ session' = "open"
    /\ UNCHANGED <<row, cached, epoch, pushed>>

ThreadEnds(c) ==
    /\ c \in threads
    /\ threads' = threads \ {c}
    /\ IF c.at = "sending"
       THEN pushed' = [pushed EXCEPT ![c.epoch] = @ + 1] /\ UNCHANGED row
       ELSE row' = Marked /\ UNCHANGED pushed
    /\ UNCHANGED <<cached, loader, task, session, epoch, unmarked>>

Init ==
    /\ row \in [enabled : {TRUE}, triggered : {FALSE}, threshold : Level,
                repeat : BOOLEAN, recent : {FALSE}]
    /\ cached = None /\ loader = None
    /\ task = [t \in Task |-> Idle]
    /\ threads = {} /\ session = "open" /\ epoch = 1
    /\ pushed = [e \in Epoch |-> 0] /\ unmarked = [e \in Epoch |-> 0]

Next ==
    \/ \E t \in Task :
        \/ \E rate \in Rate : Observe(t, rate)
        \/ Resume(t) \/ Refetch(t) \/ Send(t) \/ Persist(t)
    \/ LoaderReads \/ LoaderPuts \/ Expires \/ IntervalPasses
    \/ \E asks \in {"keep", "on", "off"}, level \in Level, repeat \in BOOLEAN :
          Put(asks, level, repeat)
    \/ CloseBegins \/ Drained \/ DrainTimesOut
    \/ \E c \in threads : ThreadEnds(c)

-----------------------------------------------------------------------------
\* An armed alert is pushed once, and a repeating one once per interval, however
\* many observations match while the push is on its way and however stale the
\* cached settings are.  A push is repeated only after its mark was lost: the
\* write failed, or close() cancelled its task.
OnePushPerArming == \A e \in Epoch : pushed[e] <= 1 + unmarked[e]
=============================================================================
