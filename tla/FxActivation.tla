------------------------------ MODULE FxActivation ------------------------------
(***************************************************************************)
(* The one-way switch of the FX latest values from plain SETs (v1) to       *)
(* revisioned compare-and-set values (v2): the writer-mode row and each     *)
(* process's cache of it (atomic_write_control/durable/runtime), the        *)
(* quiesce handshake (atomic_quiesce_durable/startup), the cut-over row     *)
(* (atomic_cutover_durable/runtime), the operator's script                  *)
(* (scripts/activate_atomic_fx.py), the migrator (atomic_migration), and    *)
(* the writers the switch is about: crud's direct writer and the mirror.    *)
(*                                                                          *)
(* One latest key stands for all of them.  A value is [kind, rev], rev the  *)
(* revision of the database row it was built from (0: none); rates are left *)
(* out, a revision determines its rate.  The three cut-over assets are      *)
(* flipped in one transaction and are one Boolean.  A time stamp is the     *)
(* number of the last application start before it.  Rows are seeded and     *)
(* well formed, and begin-atomic names a schema the atomic mode accepts.    *)
(***************************************************************************)
EXTENDS Integers

CONSTANTS
    MaxRev,    \* bound: database revisions of the key
    MaxBoots,  \* bound: starts of the application
    None       \* nothing in progress

ASSUME BoundsAssumption == MaxRev \in Nat \ {0} /\ MaxBoots \in Nat \ {0}

VARIABLES
    control,   \* atomic_write_control: [mode, epoch, gen]
    quiesce,   \* the quiesce session: [state, gen, stamp]
    acks,      \* atomic_quiesce_app_ack: set of [gen, boot]
    cutover,   \* atomic_cutover_control: [status, session, gen]
    ready,     \* publish_state of the assets is 'ready'
    rev,       \* newest revision of the key in the database
    redis,     \* the key in Redis
    app,       \* where the application process is
    boot,      \* number of its start
    snap,      \* its write-mode cache (atomic_write_runtime._current)
    direct,    \* a crawler's write in progress: None or [mode, rev]
    mirror,    \* a mirror write in progress: None or [mode, rev]
    seen,      \* what a script run read at its start, or None
    migrator   \* the migration script

durable == <<control, quiesce, acks, cutover, ready>>
process == <<app, boot, snap>>
vars == <<durable, rev, redis, process, direct, mirror, seen, migrator>>

Mode == {"legacy", "halt", "atomic"}
Idle == [at |-> "off", rev |-> 0, raw |-> None]
Initial == [init |-> FALSE, latched |-> FALSE, mode |-> "legacy", gen |-> 0]

-----------------------------------------------------------------------------
(* The writer-mode cache of a process                                        *)

\* compute_effective_mode of a well formed row.
EffectiveMode(row) ==
    CASE row.mode = "legacy" /\ row.epoch = 0 -> "legacy"
      [] row.mode = "atomic" /\ row.epoch > 0 -> "atomic"
      [] OTHER -> "halt"

\* refresh_from_db, the row was read.
Refreshed(s, row) ==
    LET latched == s.latched \/ row.epoch > 0
    IN  [init |-> TRUE,
         latched |-> latched,
         gen |-> IF row.gen > s.gen THEN row.gen ELSE s.gen,
         mode |-> IF EffectiveMode(row) = "atomic" THEN "atomic"
                  ELSE IF row.mode = "halt" \/ latched THEN "halt"
                  ELSE "legacy"]

\* refresh_from_db, the read failed: a cache that never held a mode stays so, an
\* atomic one closes.
ReadFailed(s) ==
    IF s.init /\ s.mode = "atomic" THEN [s EXCEPT !.mode = "halt"] ELSE s

Refresh == snap' \in {Refreshed(snap, control), ReadFailed(snap)}

MayWrite_Uninitialised(s) == s.mode # "halt"

\* The gate at the head of a writer and of the mirror.
MayWrite(s) == s.init /\ s.mode \in {"legacy", "atomic"}

-----------------------------------------------------------------------------
(* The application: lifespan, acknowledgement, poll                          *)

\* A container is started again after a crash, or recreated by the operator.
Start ==
    /\ app = "down" /\ boot < MaxBoots
    /\ app' = "booting"
    /\ boot' = boot + 1
    /\ UNCHANGED <<durable, rev, redis, snap, direct, mirror, seen, migrator>>

\* The crawler subprocesses live in the same container.
Stop ==
    /\ app # "down" /\ boot < MaxBoots
    /\ app' = "down"
    /\ snap' = Initial /\ direct' = None /\ mirror' = None
    /\ UNCHANGED <<durable, rev, redis, boot, seen, migrator>>

\* lifespan refreshes the cache before warmup_latest_rates.
RefreshBeforeWarmup ==
    /\ app = "booting"
    /\ app' = "warming"
    /\ Refresh
    /\ UNCHANGED <<durable, rev, redis, boot, direct, mirror, seen, migrator>>

\* warmup_latest_rates is one round of the mirror, awaited.
Warmup ==
    /\ app = "warming"
    /\ app' = "warmed"
    /\ mirror' = IF MayWrite(snap) /\ rev > 0
                 THEN [mode |-> snap.mode, rev |-> rev] ELSE None
    /\ UNCHANGED <<durable, rev, redis, boot, snap, direct, seen, migrator>>

\* start_scheduler refreshes once more before any job runs.
StartScheduler ==
    /\ app = "warmed" /\ mirror = None
    /\ app' = "scheduled"
    /\ Refresh
    /\ UNCHANGED <<durable, rev, redis, boot, direct, mirror, seen, migrator>>

\* The four conditions of cas_record_quiesce_app_ack.
AckQualifies ==
    /\ snap.mode = "halt"
    /\ control.mode = "halt"
    /\ snap.gen >= quiesce.gen
    /\ boot > quiesce.stamp

\* record_app_ack_if_quiescing: once per start, right after start_scheduler and
\* long before the first poll.
Acknowledge ==
    /\ app = "scheduled"
    /\ app' = "up"
    /\ acks' = IF quiesce.state = "open" /\ AckQualifies
               THEN acks \cup {[gen |-> snap.gen, boot |-> boot]} ELSE acks
    /\ UNCHANGED <<control, quiesce, cutover, ready, rev, redis, boot, snap, direct,
                   mirror, seen, migrator>>

Poll ==
    /\ app = "up"
    /\ Refresh
    /\ UNCHANGED <<durable, rev, redis, app, boot, direct, mirror, seen, migrator>>

Drained_RowOnly ==
    quiesce.state = "open" /\ control.mode = "halt" /\ control.gen = quiesce.gen

\* confirm_quiesce_drained
Drained ==
    /\ quiesce.state = "open"
    /\ control.mode = "halt" /\ control.epoch = 0
    /\ control.gen = quiesce.gen
    /\ \E a \in acks : a.gen >= quiesce.gen /\ a.boot > quiesce.stamp

-----------------------------------------------------------------------------
(* The publish gate                                                          *)

CutoverState_AnyAdvance(writer, status, assetsReady) ==
    IF writer = "legacy" THEN "legacy_ready"
    ELSE IF writer = "halt" THEN "halt_blocked"
    ELSE IF status = "idle" THEN "atomic_blocked"
    ELSE "atomic_ready"

\* derive_cutover_state
CutoverState(writer, status, assetsReady) ==
    IF writer = "legacy" THEN "legacy_ready"
    ELSE IF writer = "halt" THEN "halt_blocked"
    ELSE IF status # "completed" THEN "atomic_blocked"
    ELSE IF assetsReady THEN "atomic_ready" ELSE "halt_blocked"

\* read_cutover_snapshot_fresh: the mode is the process's cached one.  The rows are
\* read control first, which sees no later status than one read of both would.
FreshCutover == CutoverState(snap.mode, cutover.status, ready)

-----------------------------------------------------------------------------
(* Writers                                                                   *)

\* COMPARE_WRITE of atomic_lua, on what the key holds.
CompareWrite(v, r) ==
    IF v.kind = "v1" THEN v                              \* migration_required
    ELSE IF v.kind = "v2" /\ r < v.rev THEN v            \* skipped_newer
    ELSE [kind |-> "v2", rev |-> r]

\* What the write of a job leaves in Redis.
Written(job) == IF job.mode = "legacy" THEN [kind |-> "v1", rev |-> job.rev]
                                       ELSE CompareWrite(redis, job.rev)

JobsRun == app \in {"scheduled", "up"}

\* insert_bank_rates_into_db reads the mode once; a crawler subprocess refreshed
\* its own cache when it was started.  None starts after the last revision (bound).
DirectGate ==
    /\ JobsRun /\ direct = None /\ rev < MaxRev
    /\ \E s \in {snap, Refreshed(Initial, control)} :
           /\ MayWrite(s)
           /\ direct' = [mode |-> s.mode, rev |-> 0]
    /\ UNCHANGED <<durable, rev, redis, process, mirror, seen, migrator>>

DirectCommit ==
    /\ direct # None /\ direct.rev = 0 /\ rev < MaxRev
    /\ rev' = rev + 1
    /\ direct' = [direct EXCEPT !.rev = rev + 1]
    /\ UNCHANGED <<durable, redis, process, mirror, seen, migrator>>

DirectLands ==
    /\ direct # None /\ direct.rev > 0
    /\ redis' = Written(direct)
    /\ direct' = None
    /\ UNCHANGED <<durable, rev, process, mirror, seen, migrator>>

\* No rate changed, the commit failed, or Redis did.
DirectEnds ==
    /\ direct # None
    /\ direct' = None
    /\ UNCHANGED <<durable, rev, redis, process, mirror, seen, migrator>>

MirrorGate_LegacyOnly ==
    /\ JobsRun /\ mirror = None /\ rev > 0 /\ MayWrite(snap) /\ snap.mode = "legacy"
    /\ mirror' = [mode |-> snap.mode, rev |-> rev]
    /\ UNCHANGED <<durable, rev, redis, process, direct, seen, migrator>>

\* _mirror_all_latest reads the mode and the newest rows ...
MirrorGate ==
    /\ JobsRun /\ mirror = None /\ rev > 0 /\ MayWrite(snap)
    /\ mirror' = [mode |-> snap.mode, rev |-> rev]
    /\ UNCHANGED <<durable, rev, redis, process, direct, seen, migrator>>

\* ... and writes them one await later.
MirrorLands ==
    /\ mirror # None
    /\ redis' = Written(mirror)
    /\ mirror' = None
    /\ UNCHANGED <<durable, rev, process, direct, seen, migrator>>

MirrorFails ==
    /\ mirror # None
    /\ mirror' = None
    /\ UNCHANGED <<durable, rev, redis, process, direct, seen, migrator>>

\* Redis evicts (maxmemory-policy allkeys-lru).
Evict ==
    /\ redis.kind # "none"
    /\ redis' = [kind |-> "none", rev |-> 0]
    /\ UNCHANGED <<durable, rev, process, direct, mirror, seen, migrator>>

-----------------------------------------------------------------------------
(* scripts/activate_atomic_fx.py                                             *)

\* resolve_resume_action; the assets of a row are all blocked or all ready.
Resume(s) ==
    CASE s.control.mode = "legacy" /\ s.cutover.status = "idle" /\ ~s.ready
            /\ s.control.epoch = 0 /\ ~s.cutover.session -> "halt"
      [] s.control.mode = "halt" /\ s.cutover.status = "idle" /\ ~s.ready
            /\ s.control.epoch = 0 /\ ~s.cutover.session -> "begin-atomic"
      [] s.control.mode = "atomic" /\ s.cutover.status = "running" /\ ~s.ready
            /\ s.control.epoch >= 1 /\ s.cutover.session -> "verify"
      [] s.control.mode = "atomic" /\ s.cutover.status = "verified" /\ ~s.ready
            /\ s.control.epoch >= 1 /\ s.cutover.session -> "finalize"
      [] s.control.mode = "atomic" /\ s.cutover.status = "completed" /\ s.ready
            /\ s.control.epoch >= 1 /\ s.cutover.session -> "noop"
      [] OTHER -> "fail-closed"

SelfVerified_AnyValue == redis.kind # "none"

\* migration_self_verify: every source present has a v2 value.
SelfVerified == redis.kind = "v2"

\* read_control_state now; `stamp` is the halt time a run that halts would write.
Fresh == [control |-> control, cutover |-> cutover, ready |-> ready,
          stamp |-> IF control.mode = "legacy" THEN boot ELSE 0,
          migrated |-> SelfVerified]

\* A run reads the state, and another run may finish before it acts.
ReadState ==
    /\ seen = None
    /\ seen' = [Fresh EXCEPT !.migrated = FALSE]
    /\ UNCHANGED <<durable, rev, redis, process, direct, mirror, migrator>>

CheckMigrated ==
    /\ seen # None /\ ~seen.migrated /\ SelfVerified
    /\ Resume(seen) \in {"verify", "finalize"}
    /\ seen' = [seen EXCEPT !.migrated = TRUE]
    /\ UNCHANGED <<durable, rev, redis, process, direct, mirror, migrator>>

\* The run ends without applying: refused, failed, or killed.
GiveUp ==
    /\ seen # None
    /\ seen' = None
    /\ UNCHANGED <<durable, rev, redis, process, direct, mirror, migrator>>

\* A phase is applied by the run that read `seen`, or by one from start to end.
Run(s) == /\ s # None
          /\ seen' \in IF s = seen THEN {None, seen} ELSE {seen}

\* The row that cas_request_halt and cas_request_incident_halt write.
Halted(row) == [mode |-> "halt", epoch |-> row.epoch, gen |-> row.gen + 1]

\* _do_halt: cas_request_halt and cas_open_quiesce_session in one transaction.
Halt(s) ==
    /\ Run(s) /\ Resume(s) = "halt"
    /\ control.gen = s.control.gen /\ control.mode = "legacy"
    /\ quiesce.state # "open"
    /\ control' = Halted(control)
    /\ quiesce' = [state |-> "open", gen |-> s.control.gen + 1, stamp |-> s.stamp]
    /\ UNCHANGED <<acks, cutover, ready, rev, redis, process, direct, mirror,
                   migrator>>

BegunCutover_NoSession(c) == [c EXCEPT !.status = "running", !.gen = @ + 1]

\* cas_begin_cutover
BegunCutover(c) == [status |-> "running", session |-> TRUE, gen |-> c.gen + 1]

\* _do_begin_atomic: the drain proof, then cas_activate_atomic, cas_begin_cutover
\* and cas_consume_quiesce_session in one transaction.  The lease is not asked.
BeginAtomic(s) ==
    /\ Run(s) /\ Resume(s) = "begin-atomic"
    /\ Drained
    /\ control.gen = s.control.gen /\ control.epoch = s.control.epoch
    /\ control.mode = "halt"
    /\ cutover.gen = s.cutover.gen /\ cutover.status = "idle" /\ ~cutover.session
    /\ control' = [mode |-> "atomic", epoch |-> s.control.epoch + 1,
                   gen |-> s.control.gen + 1]
    /\ cutover' = BegunCutover(cutover)
    /\ quiesce' = [quiesce EXCEPT !.state = "consumed"]
    /\ UNCHANGED <<acks, ready, rev, redis, process, direct, mirror, migrator>>

\* cas_advance_status
Advance(s, from, to) ==
    /\ cutover.gen = s.cutover.gen /\ cutover.status = from
    /\ cutover.session = s.cutover.session
    /\ cutover' = [status |-> to, session |-> cutover.session, gen |-> cutover.gen + 1]

Verify(s) ==
    /\ Run(s) /\ Resume(s) = "verify" /\ s.migrated
    /\ Advance(s, "running", "verified")
    /\ UNCHANGED <<control, quiesce, acks, ready, rev, redis, process, direct,
                   mirror, migrator>>

\* _do_finalize: the assets and the status in one transaction.
Finalize(s) ==
    /\ Run(s) /\ Resume(s) = "finalize" /\ s.migrated
    /\ ~ready
    /\ ready' = TRUE
    /\ Advance(s, "verified", "completed")
    /\ UNCHANGED <<control, quiesce, acks, rev, redis, process, direct, mirror,
                   migrator>>

\* cas_request_incident_halt keeps the epoch.
IncidentHalt(s) ==
    /\ Run(s) /\ s.control.mode = "atomic"
    /\ control.gen = s.control.gen /\ control.mode = "atomic"
    /\ control' = Halted(control)
    /\ UNCHANGED <<quiesce, acks, cutover, ready, rev, redis, process, direct,
                   mirror, migrator>>

-----------------------------------------------------------------------------
(* scripts/migrate_atomic_latest_values.py and atomic_migration              *)

\* _authorize_production asks for the drain proof ...
Authorize ==
    /\ migrator.at = "off" /\ Drained
    /\ migrator' = [migrator EXCEPT !.at = "authorized"]
    /\ UNCHANGED <<durable, rev, redis, process, direct, mirror, seen>>

\* ... and run_migration for the row once more, at its start only
\* (_revalidate_production_authorization).
RevalidateThenFetchRow ==
    /\ migrator.at = "authorized" /\ rev > 0
    /\ control.mode = "halt" /\ control.epoch = 0
    /\ migrator' = [at |-> "row", rev |-> rev, raw |-> None]
    /\ UNCHANGED <<durable, rev, redis, process, direct, mirror, seen>>

\* decide_migration_action; v2 values and values newer than the row are left alone.
MigrationWrites(value, r) == value.kind = "none" \/ (value.kind = "v1" /\ r >= value.rev)

FetchValue ==
    /\ migrator.at = "row"
    /\ migrator' = IF MigrationWrites(redis, migrator.rev)
                   THEN [migrator EXCEPT !.at = "decided", !.raw = redis]
                   ELSE Idle
    /\ UNCHANGED <<durable, rev, redis, process, direct, mirror, seen>>

\* MIGRATE_CAS of atomic_lua replaces exactly the value that was read; an absent
\* key is seeded with COMPARE_WRITE.
MigrateWrite ==
    /\ migrator.at = "decided"
    /\ redis' = IF migrator.raw.kind = "none" THEN CompareWrite(redis, migrator.rev)
                ELSE IF redis = migrator.raw THEN [kind |-> "v2", rev |-> migrator.rev]
                ELSE redis
    /\ migrator' = IF \/ migrator.raw.kind = "none" /\ redis.kind = "v1"
                      \/ migrator.raw.kind = "v1" /\ redis # migrator.raw
                   THEN [at |-> "retry", rev |-> 0, raw |-> None]
                   ELSE Idle
    /\ UNCHANGED <<durable, rev, process, direct, mirror, seen>>

\* Both the row and the value are read again.
MigrateRetry ==
    /\ migrator.at = "retry"
    /\ migrator' = [at |-> "row", rev |-> rev, raw |-> None]
    /\ UNCHANGED <<durable, rev, redis, process, direct, mirror, seen>>

\* Out of retries, refused or killed.
MigratorEnds ==
    /\ migrator.at # "off"
    /\ migrator' = Idle
    /\ UNCHANGED <<durable, rev, redis, process, direct, mirror, seen>>

-----------------------------------------------------------------------------

Init ==
    /\ control = [mode |-> "legacy", epoch |-> 0, gen |-> 0]
    /\ quiesce = [state |-> "none", gen |-> 0, stamp |-> 0]
    /\ acks = {}
    /\ cutover = [status |-> "idle", session |-> FALSE, gen |-> 0]
    /\ ready = FALSE
    /\ rev = 0
    /\ redis = [kind |-> "none", rev |-> 0]
    /\ app = "down" /\ boot = 0
    /\ snap = Initial
    /\ direct = None /\ mirror = None /\ seen = None
    /\ migrator = Idle

Lifespan == \/ Start \/ Stop \/ RefreshBeforeWarmup \/ Warmup \/ StartScheduler
            \/ Acknowledge \/ Poll
Write == \/ DirectGate \/ DirectCommit \/ DirectLands \/ DirectEnds
         \/ MirrorGate \/ MirrorLands \/ MirrorFails \/ Evict
Operate == \/ ReadState \/ CheckMigrated \/ GiveUp
           \/ \E s \in {seen, Fresh} :
                  Halt(s) \/ BeginAtomic(s) \/ Verify(s) \/ Finalize(s)
                  \/ IncidentHalt(s)
Migrate == \/ Authorize \/ RevalidateThenFetchRow \/ FetchValue \/ MigrateWrite
           \/ MigrateRetry \/ MigratorEnds

Next == Lifespan \/ Write \/ Operate \/ Migrate

Spec == Init /\ [][Next]_vars

\* The container runs, its jobs are scheduled, and the control row is not always
\* unreadable, nor Redis always failing, when the mirror runs.  The operator owes
\* nothing.
Fairness ==
    /\ WF_vars(Start \/ RefreshBeforeWarmup \/ Warmup \/ StartScheduler
               \/ Acknowledge)
    /\ WF_vars(Poll /\ snap' = Refreshed(snap, control))
    /\ WF_vars(MirrorLands \/ MirrorFails)
    /\ SF_vars(MirrorGate) /\ SF_vars(MirrorLands)

FairSpec == Spec /\ Fairness

-----------------------------------------------------------------------------
(* Properties                                                                *)

Value == [kind : {"none", "v1", "v2"}, rev : 0..MaxRev]
Job == {None} \cup [mode : {"legacy", "atomic"}, rev : 0..MaxRev]

\* Every variable has its type; a latched cache never says legacy.
TypeOK ==
    /\ control \in [mode : Mode, epoch : 0..1, gen : 0..3]
    /\ quiesce \in [state : {"none", "open", "consumed"}, gen : 0..1,
                   stamp : 0..MaxBoots]
    /\ acks \subseteq [gen : 0..3, boot : 1..MaxBoots]
    /\ cutover \in [status : {"idle", "running", "verified", "completed"},
                   session : BOOLEAN, gen : 0..3]
    /\ ready \in BOOLEAN
    /\ rev \in 0..MaxRev /\ redis \in Value
    /\ app \in {"down", "booting", "warming", "warmed", "scheduled", "up"}
    /\ boot \in 0..MaxBoots
    /\ snap \in [init : BOOLEAN, latched : BOOLEAN, mode : Mode, gen : 0..3]
    /\ snap.latched => snap.mode # "legacy"
    /\ direct \in Job /\ mirror \in Job
    /\ migrator.at \in {"off", "authorized", "row", "decided", "retry"}

\* Once the drain proof holds, and ever after, no plain write is in progress and
\* the running process no longer believes in the legacy mode: what the migration
\* and begin-atomic rest on (confirm_quiesce_drained).
QuietOnceDrained ==
    Drained \/ control.epoch > 0 =>
        \A job \in {direct, mirror} : job # None => job.mode = "atomic"

\* A revisioned value is never replaced by a plain one nor by an older revision,
\* whichever writers, mirrors, restarts and migrators overlap (the incident that
\* is_initialized answers).
NoDowngrade ==
    [][redis.kind = "v2" => \/ redis'.kind = "none"
                            \/ redis'.kind = "v2" /\ redis'.rev >= redis.rev]_redis

\* A cut-over recorded as verified never leaves a plain value behind
\* (_do_verify, _do_finalize).
VerifiedMeansMigrated ==
    cutover.status \in {"verified", "completed"} => redis.kind # "v1"

\* The publish gate opens in the atomic mode only if no plain value is, or can
\* become, visible: the mode is a cache, the rows are another process's.
GateOpensOnlyOnV2 ==
    FreshCutover = "atomic_ready" =>
        /\ redis.kind # "v1"
        /\ \A job \in {direct, mirror} : job # None => job.mode = "atomic"

\* Without an incident halt the script always finds a phase to resume, however
\* its runs overlap or die (resolve_resume_action).
ResumeNeverStuck ==
    Resume(Fresh) = "fail-closed" => control.mode = "halt" /\ control.epoch > 0

\* The rows, the caches and the script agree: types, and a way to resume.
SwitchSound == TypeOK /\ ResumeNeverStuck

\* Once the atomic mode is on and the key was migrated, Redis holds the newest
\* revision of the database unless a newer one is committed or the operator
\* halts: the mirror repairs lost writes, evictions and crashes.
MirrorRepairs ==
    (control.mode = "atomic" /\ redis.kind # "v1" /\ rev = MaxRev) ~>
        (redis = [kind |-> "v2", rev |-> rev] \/ control.mode # "atomic")
================================================================================
