---------------------------- MODULE FxActivationProofs ----------------------------
(***************************************************************************)
(* Proofs about FxActivation, for any number of revisions and restarts.     *)
(*                                                                          *)
(* The rows only move forward: the generation of the control row tells the  *)
(* mode, the quiesce session and what the cut-over may be (Durable), and    *)
(* the generation of the cache tells what the process believes (Cache).     *)
(* Everything then turns on one moment, the first acknowledgement: from     *)
(* then on no plain write is in progress and none can start (Quiet).        *)
(***************************************************************************)
EXTENDS FxActivation, TLAPS

ControlRows ==
    { [mode |-> "legacy", epoch |-> 0, gen |-> 0],
      [mode |-> "halt",   epoch |-> 0, gen |-> 1],
      [mode |-> "atomic", epoch |-> 1, gen |-> 2],
      [mode |-> "halt",   epoch |-> 1, gen |-> 3] }

IdleCutover == [status |-> "idle", session |-> FALSE, gen |-> 0]

CutoverRows ==
    { [status |-> "running",   session |-> TRUE, gen |-> 1],
      [status |-> "verified",  session |-> TRUE, gen |-> 2],
      [status |-> "completed", session |-> TRUE, gen |-> 3] }

\* Rows that one read of the state may return.
Rows(c, k, r) ==
    /\ c \in ControlRows
    /\ IF c.gen <= 1 THEN k = IdleCutover ELSE k \in CutoverRows
    /\ r <=> k.status = "completed"

Durable ==
    /\ ready \in BOOLEAN
    /\ Rows(control, cutover, ready)
    /\ control.gen = 0 => /\ quiesce = [state |-> "none", gen |-> 0, stamp |-> 0]
                          /\ acks = {}
    /\ control.gen = 1 => quiesce.state = "open"
    /\ control.gen >= 2 => quiesce.state = "consumed" /\ acks # {}
    /\ control.gen >= 1 => quiesce \in [state : {"open", "consumed"}, gen : {1},
                                        stamp : 0..MaxBoots]
    /\ acks \subseteq [gen : 1..3, boot : 1..MaxBoots]

CacheStates ==
    { Initial,
      [init |-> TRUE, latched |-> FALSE, mode |-> "legacy", gen |-> 0],
      [init |-> TRUE, latched |-> FALSE, mode |-> "halt",   gen |-> 1],
      [init |-> TRUE, latched |-> TRUE,  mode |-> "atomic", gen |-> 2],
      [init |-> TRUE, latched |-> TRUE,  mode |-> "halt",   gen |-> 2],
      [init |-> TRUE, latched |-> TRUE,  mode |-> "halt",   gen |-> 3] }

\* A cache never runs ahead of the row.
Cache ==
    /\ app \in {"down", "booting", "warming", "warmed", "scheduled", "up"}
    /\ boot \in 0..MaxBoots
    /\ app # "down" => boot >= 1
    /\ snap \in CacheStates
    /\ snap.gen <= control.gen

\* A job holds the mode its writer read; a plain one that runs before the
\* acknowledgement of its process was started under the cache that process has.
JobsSound ==
    /\ direct \in Job /\ mirror \in Job
    /\ direct # None => JobsRun
    /\ mirror # None => JobsRun \/ app = "warmed"
    /\ \A job \in {direct, mirror} : job # None =>
          /\ job.mode = "atomic" => control.gen >= 2
          /\ job.mode = "legacy" /\ app = "scheduled" => snap.gen = 0

\* Since the first acknowledgement nobody writes, or would write, a plain value.
Quiet ==
    acks # {} =>
        /\ \A job \in {direct, mirror} : job # None => job.mode = "atomic"
        /\ snap.init => snap.gen >= 1

\* Revisioned values, and the migration that makes them, come after that moment.
Migration ==
    /\ rev \in 0..MaxRev /\ redis \in Value
    /\ redis.kind = "v2" => acks # {}
    /\ migrator \in [at : {"off", "authorized", "row", "decided", "retry"},
                     rev : 0..MaxRev, raw : {None} \cup Value]
    /\ migrator.at # "off" => acks # {}
    /\ migrator.at = "decided" =>
          migrator.raw \in Value /\ migrator.raw.kind \in {"none", "v1"}

\* What a script run read may be old; a check it made still holds.
Script ==
    seen # None =>
        /\ seen \in [control : ControlRows, cutover : {IdleCutover} \cup CutoverRows,
                     ready : BOOLEAN, stamp : 0..MaxBoots, migrated : BOOLEAN]
        /\ Rows(seen.control, seen.cutover, seen.ready)
        /\ seen.control.gen <= control.gen
        /\ seen.migrated => seen.control.gen >= 2 /\ redis.kind # "v1"

IInv ==
    /\ Durable /\ Cache /\ JobsSound /\ Quiet /\ Migration /\ Script
    /\ VerifiedMeansMigrated

-----------------------------------------------------------------------------
(* What the operators of the model do to the shapes above                    *)

LEMMA RefreshLemma ==
    ASSUME NEW s \in CacheStates, NEW row \in ControlRows, s.gen <= row.gen
    PROVE  /\ Refreshed(s, row) \in CacheStates
           /\ Refreshed(s, row).init /\ Refreshed(s, row).gen = row.gen
           /\ ReadFailed(s) \in CacheStates
           /\ (ReadFailed(s).init <=> s.init) /\ ReadFailed(s).gen = s.gen
<1>1. Refreshed(s, row).init /\ Refreshed(s, row).gen = row.gen
  BY DEF CacheStates, Initial, ControlRows, Refreshed
<1>2. Refreshed(s, row) \in CacheStates
  <2>1. s.latched => row.gen >= 2
    BY DEF CacheStates, Initial, ControlRows
  <2>2. s.latched \/ row.epoch > 0 <=> row.gen >= 2
    BY <2>1 DEF ControlRows
  <2>3. s.gen \in 0..3 /\ row.gen \in 0..3
    BY DEF CacheStates, Initial, ControlRows
  <2>4. (IF row.gen > s.gen THEN row.gen ELSE s.gen) = row.gen
    BY <2>3
  <2>5. CASE row.gen = 0
    <3>1. row = [mode |-> "legacy", epoch |-> 0, gen |-> 0]
      BY <2>5 DEF ControlRows
    <3>2. EffectiveMode(row) = "legacy"
      BY <3>1 DEF EffectiveMode
    <3>3. (s.latched \/ row.epoch > 0) = FALSE
      BY <2>2, <3>1
    <3>4. Refreshed(s, row) = [init |-> TRUE, latched |-> FALSE, mode |-> "legacy", gen |-> 0]
      BY <2>4, <3>1, <3>2, <3>3, Zenon DEF Refreshed
    <3>. QED BY <3>4 DEF CacheStates
  <2>6. CASE row.gen = 1
    <3>1. row = [mode |-> "halt", epoch |-> 0, gen |-> 1]
      BY <2>6 DEF ControlRows
    <3>2. EffectiveMode(row) = "halt"
      BY <3>1 DEF EffectiveMode
    <3>3. (s.latched \/ row.epoch > 0) = FALSE
      BY <2>2, <3>1
    <3>4. Refreshed(s, row) = [init |-> TRUE, latched |-> FALSE, mode |-> "halt", gen |-> 1]
      BY <2>4, <3>1, <3>2, <3>3, Zenon DEF Refreshed
    <3>. QED BY <3>4 DEF CacheStates
  <2>7. CASE row.gen = 2
    <3>1. row = [mode |-> "atomic", epoch |-> 1, gen |-> 2]
      BY <2>7 DEF ControlRows
    <3>2. EffectiveMode(row) = "atomic"
      BY <3>1 DEF EffectiveMode
    <3>3. (s.latched \/ row.epoch > 0) = TRUE
      BY <2>2, <3>1
    <3>4. Refreshed(s, row) = [init |-> TRUE, latched |-> TRUE, mode |-> "atomic", gen |-> 2]
      BY <2>4, <3>1, <3>2, <3>3, Zenon DEF Refreshed
    <3>. QED BY <3>4 DEF CacheStates
  <2>8. CASE row.gen = 3
    <3>1. row = [mode |-> "halt", epoch |-> 1, gen |-> 3]
      BY <2>8 DEF ControlRows
    <3>2. EffectiveMode(row) = "halt"
      BY <3>1 DEF EffectiveMode
    <3>3. (s.latched \/ row.epoch > 0) = TRUE
      BY <2>2, <3>1
    <3>4. Refreshed(s, row) = [init |-> TRUE, latched |-> TRUE, mode |-> "halt", gen |-> 3]
      BY <2>4, <3>1, <3>2, <3>3, Zenon DEF Refreshed
    <3>. QED BY <3>4 DEF CacheStates
  <2>. QED BY <2>3, <2>5, <2>6, <2>7, <2>8
<1>3. ReadFailed(s) \in CacheStates /\ (ReadFailed(s).init <=> s.init) /\ ReadFailed(s).gen = s.gen
  <2>1. CASE s.init /\ s.mode = "atomic"
    <3>1. s = [init |-> TRUE, latched |-> TRUE, mode |-> "atomic", gen |-> 2]
      BY <2>1 DEF CacheStates, Initial
    <3>2. ReadFailed(s) = [init |-> TRUE, latched |-> TRUE, mode |-> "halt", gen |-> 2]
      BY <3>1 DEF ReadFailed
    <3>3. ReadFailed(s) \in CacheStates
      BY <3>2 DEF CacheStates
    <3>. QED BY <3>1, <3>2, <3>3
  <2>2. CASE ~(s.init /\ s.mode = "atomic")
    BY <2>2 DEF ReadFailed
  <2>. QED BY <2>1, <2>2
<1>. QED BY <1>1, <1>2, <1>3

\* Which caches let a writer through, and with which mode.
LEMMA GateLemma ==
    ASSUME NEW s \in CacheStates, MayWrite(s)
    PROVE  /\ s.init
           /\ \/ s.mode = "legacy" /\ s.gen = 0
              \/ s.mode = "atomic" /\ s.gen = 2
  BY DEF CacheStates, Initial, MayWrite

LEMMA CompareWriteLemma ==
    ASSUME NEW v \in Value, NEW r \in 0..MaxRev
    PROVE  /\ CompareWrite(v, r) \in Value
           /\ CompareWrite(v, r).kind = "v1" <=> v.kind = "v1"
           /\ v.kind = "v2" => /\ CompareWrite(v, r).kind = "v2"
                               /\ CompareWrite(v, r).rev >= v.rev
<1>1. [kind |-> "v2", rev |-> r] \in Value
  BY DEF Value
<1>2. v.rev \in 0..MaxRev /\ v.kind \in {"none", "v1", "v2"}
  BY DEF Value
<1>. QED BY <1>1, <1>2, BoundsAssumption DEF CompareWrite

LEMMA WrittenLemma ==
    ASSUME redis \in Value,
           NEW job \in [mode : {"legacy", "atomic"}, rev : 0..MaxRev]
    PROVE  /\ Written(job) \in Value
           /\ job.mode = "legacy" => Written(job).kind = "v1"
           /\ job.mode = "atomic" =>
                 /\ Written(job).kind = "v1" <=> redis.kind = "v1"
                 /\ redis.kind = "v2" => /\ Written(job).kind = "v2"
                                         /\ Written(job).rev >= redis.rev
  BY CompareWriteLemma DEF Written, Value

LEMMA InitHolds == Init => IInv
<1>. SUFFICES ASSUME Init PROVE IInv
  OBVIOUS
<1>1. ready \in BOOLEAN
  BY DEF Init
<1>2. Rows(control, cutover, ready)
  BY DEF Init, Rows, ControlRows, IdleCutover
<1>3. Durable /\ Script /\ VerifiedMeansMigrated
  BY <1>1, <1>2 DEF Init, Durable, Script, VerifiedMeansMigrated
<1>4. Cache
  BY BoundsAssumption DEF Init, Cache, CacheStates, Initial
<1>5. JobsSound /\ Quiet
  BY DEF Init, JobsSound, Job, Quiet
<1>6. Migration
  BY BoundsAssumption DEF Init, Migration, Idle, Value
<1>. QED BY <1>3, <1>4, <1>5, <1>6 DEF IInv

-----------------------------------------------------------------------------
(* Each conjunct reads some of the variables only                            *)

LEMMA DurableFrame == Durable /\ UNCHANGED durable => Durable'
  BY DEF durable, Durable, Rows

LEMMA CacheFrame == Cache /\ UNCHANGED process /\ UNCHANGED control => Cache'
  BY DEF process, Cache

LEMMA JobsFrame ==
    JobsSound /\ UNCHANGED <<direct, mirror, app, snap, control>> => JobsSound'
  BY DEF JobsSound, JobsRun

LEMMA QuietFrame == Quiet /\ UNCHANGED <<acks, direct, mirror, snap>> => Quiet'
  BY DEF Quiet

LEMMA MigrationFrame == Migration /\ UNCHANGED <<rev, redis, migrator, acks>> => Migration'
  BY DEF Migration

LEMMA ScriptFrame == Script /\ UNCHANGED <<seen, control, redis>> => Script'
  BY DEF Script

LEMMA VerifiedFrame ==
    VerifiedMeansMigrated /\ UNCHANGED <<cutover, redis>> => VerifiedMeansMigrated'
  BY DEF VerifiedMeansMigrated

\* The generation of the control row tells its mode.
LEMMA RowLemma ==
    ASSUME Durable
    PROVE  /\ control \in ControlRows /\ control.gen \in 0..3
           /\ control.gen = 0 <=> control.mode = "legacy"
           /\ control.gen = 2 <=> control.mode = "atomic"
           /\ control.gen \in {1, 3} <=> control.mode = "halt"
           /\ control.gen >= 2 <=> control.epoch > 0
           /\ acks # {} => control.gen >= 1
  BY DEF Durable, Rows, ControlRows

-----------------------------------------------------------------------------
(* The application                                                           *)

LEMMA StartStep == ASSUME IInv, Start PROVE IInv'
<1>. USE DEF Start, durable, process
<1>1. Cache'
  BY BoundsAssumption DEF IInv, Cache
<1>2. JobsSound'
  BY DEF IInv, JobsSound, JobsRun
<1>. QED
  BY <1>1, <1>2, DurableFrame, QuietFrame, MigrationFrame, ScriptFrame, VerifiedFrame DEF IInv

LEMMA StopStep == ASSUME IInv, Stop PROVE IInv'
<1>. USE DEF Stop, durable, process
<1>1. Cache'
  BY RowLemma DEF IInv, Cache, CacheStates, Initial
<1>2. JobsSound' /\ Quiet'
  BY DEF IInv, JobsSound, Job, Quiet, Initial
<1>. QED
  BY <1>1, <1>2, DurableFrame, MigrationFrame, ScriptFrame, VerifiedFrame DEF IInv

LEMMA RefreshStep ==
    ASSUME IInv, Refresh, UNCHANGED control
    PROVE  /\ snap' \in CacheStates /\ snap'.gen <= control.gen
           /\ snap'.gen = control.gen \/ (snap'.gen = snap.gen /\ (snap'.init <=> snap.init))
<1>1. snap \in CacheStates /\ snap.gen <= control.gen /\ control \in ControlRows
  BY RowLemma DEF IInv, Cache
<1>2. control.gen <= control.gen
  BY RowLemma DEF IInv
<1>3. CASE snap' = Refreshed(snap, control)
  BY <1>1, <1>2, <1>3, RefreshLemma
<1>4. CASE snap' = ReadFailed(snap)
  BY <1>1, <1>4, RefreshLemma
<1>. QED BY <1>3, <1>4 DEF Refresh

LEMMA RefreshBeforeWarmupStep == ASSUME IInv, RefreshBeforeWarmup PROVE IInv'
<1>. USE DEF RefreshBeforeWarmup, durable
<1>1. Cache'
  BY RefreshStep DEF IInv, Cache
<1>2. JobsSound' /\ Quiet'
  BY RefreshStep, RowLemma DEF IInv, JobsSound, JobsRun, Quiet
<1>. QED
  BY <1>1, <1>2, DurableFrame, MigrationFrame, ScriptFrame, VerifiedFrame DEF IInv

LEMMA WarmupStep == ASSUME IInv, Warmup PROVE IInv'
<1>. USE DEF Warmup, durable
<1>1. Cache'
  BY DEF IInv, Cache
<1>2. mirror' \in Job /\ (mirror' # None => mirror'.mode = snap.mode /\ MayWrite(snap))
  BY GateLemma DEF IInv, Cache, Job, Migration
<1>3. JobsSound' /\ Quiet'
  BY <1>2, GateLemma, RowLemma DEF IInv, Cache, JobsSound, JobsRun, Quiet
<1>. QED
  BY <1>1, <1>3, DurableFrame, MigrationFrame, ScriptFrame, VerifiedFrame DEF IInv

LEMMA StartSchedulerStep == ASSUME IInv, StartScheduler PROVE IInv'
<1>. USE DEF StartScheduler, durable
<1>1. Cache'
  BY RefreshStep DEF IInv, Cache
<1>2. JobsSound' /\ Quiet'
  BY RefreshStep, RowLemma DEF IInv, JobsSound, JobsRun, Quiet
<1>. QED
  BY <1>1, <1>2, DurableFrame, MigrationFrame, ScriptFrame, VerifiedFrame DEF IInv

LEMMA PollStep == ASSUME IInv, Poll PROVE IInv'
<1>. USE DEF Poll, durable
<1>1. Cache'
  BY RefreshStep DEF IInv, Cache
<1>2. JobsSound' /\ Quiet'
  BY RefreshStep, RowLemma DEF IInv, JobsSound, JobsRun, Quiet
<1>. QED
  BY <1>1, <1>2, DurableFrame, MigrationFrame, ScriptFrame, VerifiedFrame DEF IInv

\* The acknowledgement is where Quiet begins: the process that makes it has read
\* the halted row before its first job could run.
LEMMA AcknowledgeStep == ASSUME IInv, Acknowledge PROVE IInv'
<1>. USE DEF Acknowledge
<1>1. CASE quiesce.state = "open" /\ AckQualifies
  <2>1. control.gen = 1 /\ quiesce.gen = 1 /\ snap.gen = 1
    BY <1>1, RowLemma DEF IInv, Durable, Cache, AckQualifies, CacheStates, Initial
  <2>2. [gen |-> snap.gen, boot |-> boot] \in [gen : 1..3, boot : 1..MaxBoots]
    BY <2>1, BoundsAssumption DEF IInv, Cache
  <2>3. Durable'
    BY <1>1, <2>1, <2>2 DEF IInv, Durable, Rows
  <2>4. JobsSound'
    BY DEF IInv, JobsSound, JobsRun
  <2>5. Quiet'
    BY <2>1 DEF IInv, JobsSound, Job, Quiet
  <2>6. Cache' /\ Migration'
    BY <1>1 DEF IInv, Cache, Migration
  <2>. QED BY <2>3, <2>4, <2>5, <2>6, ScriptFrame, VerifiedFrame DEF IInv
<1>2. CASE ~(quiesce.state = "open" /\ AckQualifies)
  <2>1. Cache' /\ JobsSound'
    BY DEF IInv, Cache, JobsSound, JobsRun
  <2>. QED
    BY <1>2, <2>1, DurableFrame, QuietFrame, MigrationFrame, ScriptFrame, VerifiedFrame
    DEF IInv, durable
<1>. QED BY <1>1, <1>2

-----------------------------------------------------------------------------
(* The writers and the mirror                                                *)

LEMMA DirectGateStep == ASSUME IInv, DirectGate PROVE IInv'
<1>. USE DEF DirectGate, durable, process
<1>1. PICK s \in {snap, Refreshed(Initial, control)} :
          MayWrite(s) /\ direct' = [mode |-> s.mode, rev |-> 0]
  OBVIOUS
<1>2. Initial \in CacheStates /\ Initial.gen <= control.gen /\ control \in ControlRows
  BY RowLemma DEF IInv, CacheStates, Initial
<1>3. Refreshed(Initial, control) \in CacheStates /\ Refreshed(Initial, control).gen = control.gen
  BY <1>2, RefreshLemma
<1>4. s \in CacheStates /\ (s = snap \/ s.gen = control.gen)
  BY <1>1, <1>3 DEF IInv, Cache
<1>5. direct' \in Job
  BY <1>1, <1>4, GateLemma, BoundsAssumption DEF Job
<1>6. /\ direct'.mode = "atomic" => control.gen >= 2
      /\ direct'.mode = "legacy" => control.gen = 0 \/ (snap.init /\ snap.gen = 0)
  BY <1>1, <1>4, GateLemma, RowLemma DEF IInv, Cache
<1>7. snap.gen = 0 \/ control.gen # 0
  BY RowLemma DEF IInv, Cache, CacheStates, Initial
<1>8. JobsSound'
  BY <1>5, <1>6, <1>7 DEF IInv, JobsSound, JobsRun
<1>9. Quiet'
  BY <1>5, <1>6, RowLemma DEF IInv, Quiet, Job
<1>. QED
  BY <1>8, <1>9, CacheFrame, DurableFrame, MigrationFrame, ScriptFrame, VerifiedFrame DEF IInv

LEMMA DirectCommitStep == ASSUME IInv, DirectCommit PROVE IInv'
<1>. USE DEF DirectCommit, durable, process
<1>1. rev + 1 \in 0..MaxRev
  BY BoundsAssumption DEF IInv, Migration
<1>2. direct' \in Job /\ direct'.mode = direct.mode
  BY <1>1 DEF IInv, JobsSound, Job
<1>3. JobsSound' /\ Quiet'
  BY <1>2 DEF IInv, JobsSound, JobsRun, Quiet
<1>4. Migration'
  BY <1>1 DEF IInv, Migration
<1>. QED
  BY <1>3, <1>4, CacheFrame, DurableFrame, ScriptFrame, VerifiedFrame DEF IInv

\* A write lands: a plain value only before the first acknowledgement, a
\* revisioned one only after it.
LEMMA LandsLemma ==
    ASSUME IInv, NEW job \in {direct, mirror}, job # None, redis' = Written(job)
    PROVE  /\ redis' \in Value
           /\ redis'.kind = "v2" => acks # {}
           /\ acks # {} => (redis'.kind = "v1" <=> redis.kind = "v1")
           /\ redis.kind = "v2" => redis'.kind = "v2" /\ redis'.rev >= redis.rev
<1>1. job \in [mode : {"legacy", "atomic"}, rev : 0..MaxRev] /\ redis \in Value
  BY DEF IInv, JobsSound, Job, Migration
<1>2. CASE job.mode = "atomic"
  <2>1. acks # {}
    BY <1>2, RowLemma DEF IInv, JobsSound, Durable
  <2>. QED BY <1>1, <1>2, <2>1, WrittenLemma
<1>3. CASE job.mode = "legacy"
  <2>1. acks = {} /\ redis.kind # "v2"
    BY <1>3 DEF IInv, Quiet, Migration
  <2>. QED BY <1>1, <1>3, <2>1, WrittenLemma
<1>. QED BY <1>1, <1>2, <1>3

\* What a landed write, an eviction or a migrated value leaves to prove.
LEMMA RedisStep ==
    ASSUME IInv, UNCHANGED <<durable, rev, seen>>,
           redis' \in Value, redis'.kind = "v2" => acks # {},
           acks # {} /\ redis'.kind = "v1" => redis.kind = "v1"
    PROVE  /\ Durable' /\ Script' /\ VerifiedMeansMigrated'
           /\ UNCHANGED migrator => Migration'
<1>. USE DEF durable
<1>1. Durable'
  BY DurableFrame DEF IInv
<1>2. control.gen >= 2 => acks # {}
  BY DEF IInv, Durable
<1>3. Script'
  <2>1. ASSUME seen # None, seen.migrated PROVE redis'.kind # "v1"
    BY <1>2, <2>1, RowLemma DEF IInv, Script, ControlRows
  <2>. QED BY <2>1 DEF IInv, Script
<1>4. VerifiedMeansMigrated'
  BY <1>2, RowLemma DEF IInv, VerifiedMeansMigrated, Durable, Rows, IdleCutover
<1>. QED BY <1>1, <1>3, <1>4 DEF IInv, Migration

LEMMA DirectLandsStep == ASSUME IInv, DirectLands PROVE IInv'
<1>. USE DEF DirectLands, durable, process
<1>1. JobsSound' /\ Quiet'
  BY DEF IInv, JobsSound, Job, JobsRun, Quiet
<1>. QED BY <1>1, LandsLemma, RedisStep, CacheFrame DEF IInv

LEMMA DirectEndsStep == ASSUME IInv, DirectEnds PROVE IInv'
<1>. USE DEF DirectEnds, durable, process
<1>1. JobsSound' /\ Quiet'
  BY DEF IInv, JobsSound, Job, JobsRun, Quiet
<1>. QED
  BY <1>1, CacheFrame, DurableFrame, MigrationFrame, ScriptFrame, VerifiedFrame DEF IInv

LEMMA MirrorGateStep == ASSUME IInv, MirrorGate PROVE IInv'
<1>. USE DEF MirrorGate, durable, process
<1>1. mirror' \in Job /\ mirror'.mode = snap.mode
  BY GateLemma DEF IInv, Cache, Job, Migration
<1>2. JobsSound' /\ Quiet'
  BY <1>1, GateLemma, RowLemma DEF IInv, Cache, JobsSound, JobsRun, Quiet
<1>. QED
  BY <1>2, CacheFrame, DurableFrame, MigrationFrame, ScriptFrame, VerifiedFrame DEF IInv

LEMMA MirrorLandsStep == ASSUME IInv, MirrorLands PROVE IInv'
<1>. USE DEF MirrorLands, durable, process
<1>1. JobsSound' /\ Quiet'
  BY DEF IInv, JobsSound, Job, JobsRun, Quiet
<1>. QED BY <1>1, LandsLemma, RedisStep, CacheFrame DEF IInv

LEMMA MirrorFailsStep == ASSUME IInv, MirrorFails PROVE IInv'
<1>. USE DEF MirrorFails, durable, process
<1>1. JobsSound' /\ Quiet'
  BY DEF IInv, JobsSound, Job, JobsRun, Quiet
<1>. QED
  BY <1>1, CacheFrame, DurableFrame, MigrationFrame, ScriptFrame, VerifiedFrame DEF IInv

LEMMA EvictStep == ASSUME IInv, Evict PROVE IInv'
<1>. USE DEF Evict, durable, process
<1>1. redis' \in Value /\ redis'.kind = "none"
  BY BoundsAssumption DEF Value
<1>. QED BY <1>1, RedisStep, CacheFrame, JobsFrame, QuietFrame DEF IInv

-----------------------------------------------------------------------------
(* The script and the migrator                                               *)

\* A run acts on a state that some read has returned.
ReadOf(s) ==
    /\ s.control \in ControlRows /\ s.stamp \in 0..MaxBoots
    /\ Rows(s.control, s.cutover, s.ready)
    /\ s.control.gen <= control.gen
    /\ s.migrated /\ s.control.gen >= 2 => redis.kind # "v1"

LEMMA FreshLemma == ASSUME IInv PROVE ReadOf(Fresh) /\ Fresh.control = control
<1>1. /\ Fresh.control = control /\ Fresh.cutover = cutover /\ Fresh.ready = ready
      /\ Fresh.stamp = (IF control.mode = "legacy" THEN boot ELSE 0)
      /\ Fresh.migrated <=> SelfVerified
  BY Zenon DEF Fresh
<1>2. Fresh.stamp \in 0..MaxBoots
  BY <1>1, BoundsAssumption DEF IInv, Cache
<1>3. control \in ControlRows /\ Rows(control, cutover, ready) /\ control.gen <= control.gen
  BY RowLemma DEF IInv, Durable
<1>. QED BY <1>1, <1>2, <1>3 DEF ReadOf, SelfVerified

LEMMA SeenLemma ==
    ASSUME IInv, NEW s \in {seen, Fresh}, Run(s)
    PROVE  ReadOf(s) /\ (seen' = None \/ seen' = seen)
  BY FreshLemma DEF IInv, Script, ReadOf, Run

\* What the script finds to do tells the rows it has read.
LEMMA ResumeLemma ==
    ASSUME NEW s, s.control \in ControlRows, Rows(s.control, s.cutover, s.ready)
    PROVE  /\ Resume(s) = "halt" => s.control.gen = 0
           /\ Resume(s) = "begin-atomic" => s.control.gen = 1
           /\ Resume(s) = "verify" => s.control.gen = 2 /\ s.cutover.status = "running"
           /\ Resume(s) = "finalize" => s.control.gen = 2 /\ s.cutover.status = "verified"
           /\ Resume(s) = "fail-closed" => s.control.gen = 3
  BY DEF ControlRows, Rows, IdleCutover, CutoverRows, Resume

\* Script' when a run ends or goes on and the control row has not gone back.
LEMMA ScriptStep ==
    ASSUME IInv, seen' = None \/ seen' = seen, redis' = redis,
           control'.gen \in Nat, control.gen <= control'.gen
    PROVE  Script'
  BY RowLemma DEF IInv, Script, ControlRows

LEMMA ReadStateStep == ASSUME IInv, ReadState PROVE IInv'
<1>. USE DEF ReadState, durable, process
<1>1. /\ seen'.control = control /\ seen'.cutover = cutover /\ seen'.ready = ready
      /\ ~seen'.migrated
      /\ seen' = [control |-> control, cutover |-> cutover, ready |-> ready,
                  stamp |-> Fresh.stamp, migrated |-> FALSE]
  BY Zenon DEF Fresh
<1>2. /\ control \in ControlRows /\ cutover \in {IdleCutover} \cup CutoverRows
      /\ ready \in BOOLEAN /\ Fresh.stamp \in 0..MaxBoots
  BY FreshLemma DEF ReadOf, Rows, IInv, Durable
<1>3. seen' \in [control : ControlRows, cutover : {IdleCutover} \cup CutoverRows,
                 ready : BOOLEAN, stamp : 0..MaxBoots, migrated : BOOLEAN]
  BY <1>1, <1>2, Zenon
<1>4. Script'
  BY <1>1, <1>3, RowLemma DEF IInv, Script, Durable
<1>. QED
  BY <1>4, CacheFrame, DurableFrame, JobsFrame, QuietFrame, MigrationFrame, VerifiedFrame DEF IInv

LEMMA CheckMigratedStep == ASSUME IInv, CheckMigrated PROVE IInv'
<1>. USE DEF CheckMigrated, durable, process
<1>1. seen.control.gen >= 2
  BY ResumeLemma DEF IInv, Script
<1>2. Script'
  BY <1>1 DEF IInv, Script, SelfVerified
<1>. QED
  BY <1>2, CacheFrame, DurableFrame, JobsFrame, QuietFrame, MigrationFrame, VerifiedFrame DEF IInv

LEMMA GiveUpStep == ASSUME IInv, GiveUp PROVE IInv'
  BY CacheFrame, DurableFrame, JobsFrame, QuietFrame, MigrationFrame, VerifiedFrame
  DEF IInv, GiveUp, durable, process, Script

\* The control row moves one generation on: the processes notice nothing.
LEMMA ControlMoves ==
    ASSUME IInv, control' \in ControlRows, control'.gen = control.gen + 1,
           UNCHANGED <<acks, rev, redis, process, direct, mirror, migrator>>
    PROVE  Cache' /\ JobsSound' /\ Quiet' /\ Migration'
<1>. USE DEF process
<1>1. Cache'
  BY RowLemma DEF IInv, Cache, CacheStates, Initial
<1>2. JobsSound'
  BY RowLemma DEF IInv, JobsSound, JobsRun
<1>. QED BY <1>1, <1>2, QuietFrame, MigrationFrame DEF IInv

LEMMA HaltStep ==
    ASSUME IInv, NEW s \in {seen, Fresh}, Halt(s) PROVE IInv'
<1>. USE DEF Halt
<1>1. ReadOf(s) /\ s.control.gen = 0 /\ (seen' = None \/ seen' = seen)
  BY SeenLemma, ResumeLemma DEF ReadOf
<1>2. control = [mode |-> "legacy", epoch |-> 0, gen |-> 0]
  BY <1>1, RowLemma DEF IInv, ControlRows
<1>3. control' = [mode |-> "halt", epoch |-> 0, gen |-> 1]
  BY <1>2 DEF Halted
<1>4. control' \in ControlRows
  BY <1>3 DEF ControlRows
<1>5. Durable'
  BY <1>1, <1>2, <1>3, <1>4 DEF IInv, Durable, Rows, ReadOf
<1>6. Script'
  BY <1>1, <1>2, <1>3, ScriptStep
<1>. QED BY <1>2, <1>3, <1>4, <1>5, <1>6, ControlMoves, VerifiedFrame DEF IInv

LEMMA BeginAtomicStep ==
    ASSUME IInv, NEW s \in {seen, Fresh}, BeginAtomic(s) PROVE IInv'
<1>. USE DEF BeginAtomic
<1>1. ReadOf(s) /\ s.control.gen = 1 /\ (seen' = None \/ seen' = seen)
  BY SeenLemma, ResumeLemma DEF ReadOf
<1>2. control = [mode |-> "halt", epoch |-> 0, gen |-> 1] /\ s.control.epoch = 0
  BY <1>1, RowLemma DEF IInv, ControlRows
<1>3. control' = [mode |-> "atomic", epoch |-> 1, gen |-> 2]
  BY <1>1, <1>2
<1>4. control' \in ControlRows
  BY <1>3 DEF ControlRows
<1>5. cutover' = [status |-> "running", session |-> TRUE, gen |-> 1] /\ ~ready
  <2>1. cutover = IdleCutover /\ (ready <=> cutover.status = "completed")
    BY <1>2 DEF IInv, Durable, Rows
  <2>2. cutover.gen = 0 /\ cutover.status = "idle"
    BY <2>1, Zenon DEF IdleCutover
  <2>3. cutover' = [status |-> "running", session |-> TRUE, gen |-> cutover.gen + 1]
    BY Zenon DEF BegunCutover
  <2>4. cutover.gen + 1 = 1
    BY <2>2
  <2>. QED BY <2>1, <2>2, <2>3, <2>4, Zenon
<1>6. acks # {}
  BY DEF Drained
<1>7. Durable'
  BY <1>2, <1>3, <1>4, <1>5, <1>6 DEF IInv, Durable, Rows, CutoverRows
<1>8. Script'
  BY <1>1, <1>2, <1>3, ScriptStep
<1>9. VerifiedMeansMigrated'
  BY <1>5 DEF VerifiedMeansMigrated
<1>. QED BY <1>2, <1>3, <1>4, <1>7, <1>8, <1>9, ControlMoves DEF IInv

LEMMA AdvanceLemma ==
    /\ \A c \in CutoverRows : c.status = "running" =>
           c = [status |-> "running", session |-> TRUE, gen |-> 1]
    /\ \A c \in CutoverRows : c.status = "verified" =>
           c = [status |-> "verified", session |-> TRUE, gen |-> 2]
  BY SMT DEF CutoverRows

LEMMA CutoverMoves ==
    ASSUME Durable, control.gen >= 2, UNCHANGED <<control, quiesce, acks>>,
           cutover' \in CutoverRows, ready' \in BOOLEAN,
           ready' <=> cutover'.status = "completed"
    PROVE  Durable'
  BY RowLemma DEF Durable, Rows

\* The two steps of the cut-over row that rest on a migrated key.
LEMMA AdvanceStep ==
    ASSUME IInv, NEW s \in {seen, Fresh}, Verify(s) \/ Finalize(s) PROVE IInv'
<1>1. /\ ReadOf(s) /\ s.control.gen = 2 /\ s.migrated
      /\ seen' = None \/ seen' = seen
      /\ UNCHANGED <<control, quiesce, acks, rev, redis, process, direct, mirror, migrator>>
  BY SeenLemma, ResumeLemma DEF ReadOf, Verify, Finalize
<1>2. redis.kind # "v1" /\ control.gen >= 2
  BY <1>1, RowLemma DEF ReadOf, IInv, ControlRows
<1>3. cutover \in CutoverRows
  BY <1>2, RowLemma DEF IInv, Durable, Rows
<1>4. ASSUME Verify(s) PROVE Durable'
  <2>1. cutover = [status |-> "running", session |-> TRUE, gen |-> 1]
    BY <1>3, <1>4, AdvanceLemma DEF Verify, Advance
  <2>2. cutover' = [status |-> "verified", session |-> TRUE, gen |-> 2] /\ ready' = ready
    BY <1>4, <2>1, 1 + 1 = 2, Zenon DEF Verify, Advance
  <2>3. cutover' \in CutoverRows /\ cutover'.status = "verified" /\ cutover.status = "running"
    BY <2>1, <2>2, Zenon DEF CutoverRows
  <2>4. ready' <=> cutover'.status = "completed"
    BY <2>2, <2>3 DEF IInv, Durable, Rows
  <2>5. ready' \in BOOLEAN
    BY <2>2 DEF IInv, Durable
  <2>. QED BY <1>1, <1>2, <2>3, <2>4, <2>5, CutoverMoves DEF IInv
<1>5. ASSUME Finalize(s) PROVE Durable'
  <2>1. cutover = [status |-> "verified", session |-> TRUE, gen |-> 2]
    BY <1>3, <1>5, AdvanceLemma DEF Finalize, Advance
  <2>2. cutover' = [status |-> "completed", session |-> TRUE, gen |-> 3] /\ ready' = TRUE
    BY <1>5, <2>1, 2 + 1 = 3, Zenon DEF Finalize, Advance
  <2>3. cutover' \in CutoverRows /\ cutover'.status = "completed"
    BY <2>2, Zenon DEF CutoverRows
  <2>4. ready' \in BOOLEAN /\ (ready' <=> cutover'.status = "completed")
    BY <2>2, <2>3
  <2>. QED BY <1>1, <1>2, <2>3, <2>4, CutoverMoves DEF IInv
<1>6. Durable'
  BY <1>4, <1>5, Zenon
<1>7. VerifiedMeansMigrated'
  BY <1>1, <1>2 DEF VerifiedMeansMigrated
<1>. QED
  BY <1>1, <1>6, <1>7, CacheFrame, JobsFrame, QuietFrame, MigrationFrame, ScriptStep, RowLemma
  DEF IInv, process

LEMMA IncidentHaltStep ==
    ASSUME IInv, NEW s \in {seen, Fresh}, IncidentHalt(s) PROVE IInv'
<1>. USE DEF IncidentHalt
<1>1. seen' = None \/ seen' = seen
  BY DEF Run
<1>2. control = [mode |-> "atomic", epoch |-> 1, gen |-> 2]
  BY RowLemma DEF IInv, ControlRows
<1>3. control' = [mode |-> "halt", epoch |-> 1, gen |-> 3]
  BY <1>2 DEF Halted
<1>4. control' \in ControlRows
  BY <1>3 DEF ControlRows
<1>5. Durable'
  BY <1>2, <1>3, <1>4 DEF IInv, Durable, Rows
<1>6. Script'
  BY <1>1, <1>2, <1>3, ScriptStep
<1>. QED BY <1>2, <1>3, <1>4, <1>5, <1>6, ControlMoves, VerifiedFrame DEF IInv

\* What a step of the migrator that writes nothing leaves to prove.
LEMMA MigratorFrame ==
    ASSUME IInv, UNCHANGED <<durable, rev, redis, process, direct, mirror, seen>>,
           Migration'
    PROVE  IInv'
  BY CacheFrame, DurableFrame, JobsFrame, QuietFrame, ScriptFrame, VerifiedFrame
  DEF IInv, durable, process

LEMMA IdleLemma ==
    Idle \in [at : {"off", "authorized", "row", "decided", "retry"},
              rev : 0..MaxRev, raw : {None} \cup Value] /\ Idle.at = "off"
  BY BoundsAssumption DEF Idle

LEMMA AuthorizeStep == ASSUME IInv, Authorize PROVE IInv'
<1>. USE DEF Authorize
<1>1. acks # {} /\ UNCHANGED acks
  BY DEF Drained, durable
<1>2. Migration'
  BY <1>1 DEF IInv, Migration
<1>. QED BY <1>2, MigratorFrame

LEMMA RevalidateThenFetchRowStep == ASSUME IInv, RevalidateThenFetchRow PROVE IInv'
<1>. USE DEF RevalidateThenFetchRow
<1>1. Migration'
  BY DEF IInv, Migration, durable
<1>. QED BY <1>1, MigratorFrame

LEMMA FetchValueStep == ASSUME IInv, FetchValue PROVE IInv'
<1>. USE DEF FetchValue
<1>1. CASE MigrationWrites(redis, migrator.rev)
  <2>1. /\ migrator' \in [at : {"off", "authorized", "row", "decided", "retry"},
                          rev : 0..MaxRev, raw : {None} \cup Value]
        /\ migrator'.at = "decided" /\ migrator'.raw = redis
    BY <1>1 DEF IInv, Migration
  <2>2. redis.kind \in {"none", "v1"}
    BY <1>1 DEF MigrationWrites
  <2>. QED BY <2>1, <2>2, MigratorFrame DEF IInv, Migration, durable
<1>2. CASE ~MigrationWrites(redis, migrator.rev)
  <2>1. Migration'
    BY <1>2, IdleLemma DEF IInv, Migration, durable
  <2>. QED BY <2>1, MigratorFrame
<1>. QED BY <1>1, <1>2

\* The migrator replaces a plain value only if it is the one it read.
LEMMA MigrateWriteLemma ==
    ASSUME IInv, MigrateWrite
    PROVE  /\ redis' \in Value /\ acks # {}
           /\ redis'.kind = "v1" => redis.kind = "v1"
           /\ redis.kind = "v2" => redis'.kind = "v2" /\ redis'.rev >= redis.rev
<1>. USE DEF MigrateWrite
<1>1. /\ acks # {} /\ migrator.rev \in 0..MaxRev /\ redis \in Value
      /\ migrator.raw \in Value /\ migrator.raw.kind \in {"none", "v1"}
  BY DEF IInv, Migration
<1>2. CASE migrator.raw.kind = "none"
  BY <1>1, <1>2, CompareWriteLemma
<1>3. CASE migrator.raw.kind = "v1" /\ redis = migrator.raw
  <2>1. redis' = [kind |-> "v2", rev |-> migrator.rev]
    BY <1>3
  <2>. QED BY <1>1, <1>3, <2>1 DEF Value
<1>4. CASE migrator.raw.kind = "v1" /\ redis # migrator.raw
  <2>1. redis' = redis
    BY <1>4
  <2>. QED BY <1>1, <2>1, BoundsAssumption DEF Value
<1>. QED BY <1>1, <1>2, <1>3, <1>4

LEMMA MigrateWriteStep == ASSUME IInv, MigrateWrite PROVE IInv'
<1>. USE DEF MigrateWrite
<1>1. Durable' /\ Script' /\ VerifiedMeansMigrated'
  BY MigrateWriteLemma, RedisStep
<1>2. /\ migrator' \in [at : {"off", "authorized", "row", "decided", "retry"},
                        rev : 0..MaxRev, raw : {None} \cup Value]
      /\ migrator'.at # "decided"
  BY IdleLemma, BoundsAssumption
<1>3. Migration'
  BY <1>2, MigrateWriteLemma DEF IInv, Migration, durable
<1>. QED BY <1>1, <1>3, CacheFrame, JobsFrame, QuietFrame DEF IInv, durable, process

LEMMA MigrateRetryStep == ASSUME IInv, MigrateRetry PROVE IInv'
<1>. USE DEF MigrateRetry
<1>1. Migration'
  BY DEF IInv, Migration, durable
<1>. QED BY <1>1, MigratorFrame

LEMMA MigratorEndsStep == ASSUME IInv, MigratorEnds PROVE IInv'
<1>. USE DEF MigratorEnds
<1>1. Migration'
  BY IdleLemma DEF IInv, Migration, durable
<1>. QED BY <1>1, MigratorFrame

-----------------------------------------------------------------------------
(* The invariant                                                             *)

LEMMA LifespanStep == ASSUME IInv, Lifespan PROVE IInv'
  BY StartStep, StopStep, RefreshBeforeWarmupStep, WarmupStep, StartSchedulerStep,
     AcknowledgeStep, PollStep DEF Lifespan

LEMMA WriteStep == ASSUME IInv, Write PROVE IInv'
  BY DirectGateStep, DirectCommitStep, DirectLandsStep, DirectEndsStep,
     MirrorGateStep, MirrorLandsStep, MirrorFailsStep, EvictStep DEF Write

LEMMA OperateStep == ASSUME IInv, Operate PROVE IInv'
<1>1. CASE ReadState \/ CheckMigrated \/ GiveUp
  BY <1>1, ReadStateStep, CheckMigratedStep, GiveUpStep
<1>2. ASSUME NEW s \in {seen, Fresh},
             Halt(s) \/ BeginAtomic(s) \/ Verify(s) \/ Finalize(s) \/ IncidentHalt(s)
      PROVE  IInv'
  BY <1>2, HaltStep, BeginAtomicStep, AdvanceStep, IncidentHaltStep
<1>. QED BY <1>1, <1>2 DEF Operate

LEMMA MigrateStep == ASSUME IInv, Migrate PROVE IInv'
  BY AuthorizeStep, RevalidateThenFetchRowStep, FetchValueStep, MigrateWriteStep,
     MigrateRetryStep, MigratorEndsStep DEF Migrate

LEMMA StutterStep == ASSUME IInv, UNCHANGED vars PROVE IInv'
  BY CacheFrame, DurableFrame, JobsFrame, QuietFrame, MigrationFrame, ScriptFrame,
     VerifiedFrame
  DEF IInv, vars, durable, process

LEMMA InvariantHolds == Spec => []IInv
<1>1. IInv /\ [Next]_vars => IInv'
  BY LifespanStep, WriteStep, OperateStep, MigrateStep, StutterStep DEF Next
<1>. QED BY InitHolds, <1>1, PTL DEF Spec

-----------------------------------------------------------------------------
(* The properties                                                            *)

\* From the drain proof on no plain write is in progress: what the migration and
\* begin-atomic rest on (confirm_quiesce_drained).
THEOREM Quiesced == Spec => []QuietOnceDrained
<1>1. IInv => QuietOnceDrained
  BY RowLemma DEF IInv, Durable, Quiet, QuietOnceDrained, Drained
<1>. QED BY <1>1, InvariantHolds, PTL

\* A cut-over recorded as verified or completed leaves no plain value, for however
\* long the program runs after it (_do_verify, _do_finalize).
THEOREM Verified == Spec => []VerifiedMeansMigrated
<1>1. IInv => VerifiedMeansMigrated
  BY DEF IInv
<1>. QED BY <1>1, InvariantHolds, PTL

\* The publish gate that reads a cached mode and another process's rows opens only
\* when no plain value is, or can become, visible (derive_cutover_state).
THEOREM GateSound == Spec => []GateOpensOnlyOnV2
<1>1. ASSUME IInv, FreshCutover = "atomic_ready" PROVE cutover.status = "completed"
  BY <1>1 DEF FreshCutover, CutoverState
<1>2. ASSUME IInv, cutover.status = "completed" PROVE control.gen >= 2
  BY <1>2, RowLemma DEF IInv, Durable, Rows, IdleCutover
<1>3. IInv => GateOpensOnlyOnV2
  BY <1>1, <1>2 DEF IInv, Durable, Quiet, VerifiedMeansMigrated, GateOpensOnlyOnV2
<1>. QED BY <1>3, InvariantHolds, PTL

LEMMA ShapesLemma ==
    /\ {IdleCutover} \cup CutoverRows
         \subseteq [status : {"idle", "running", "verified", "completed"},
                    session : BOOLEAN, gen : 0..3]
    /\ CacheStates \subseteq [init : BOOLEAN, latched : BOOLEAN, mode : Mode, gen : 0..3]
<1>. DEFINE K == [status : {"idle", "running", "verified", "completed"},
                 session : BOOLEAN, gen : 0..3]
            C == [init : BOOLEAN, latched : BOOLEAN, mode : Mode, gen : 0..3]
<1>1. /\ IdleCutover \in K
      /\ [status |-> "running",   session |-> TRUE, gen |-> 1] \in K
      /\ [status |-> "verified",  session |-> TRUE, gen |-> 2] \in K
      /\ [status |-> "completed", session |-> TRUE, gen |-> 3] \in K
  BY DEF IdleCutover
<1>2. /\ Initial \in C
      /\ [init |-> TRUE, latched |-> FALSE, mode |-> "legacy", gen |-> 0] \in C
      /\ [init |-> TRUE, latched |-> FALSE, mode |-> "halt",   gen |-> 1] \in C
      /\ [init |-> TRUE, latched |-> TRUE,  mode |-> "atomic", gen |-> 2] \in C
      /\ [init |-> TRUE, latched |-> TRUE,  mode |-> "halt",   gen |-> 2] \in C
      /\ [init |-> TRUE, latched |-> TRUE,  mode |-> "halt",   gen |-> 3] \in C
  BY DEF Initial, Mode
<1>. HIDE DEF K, C
<1>3. {IdleCutover} \cup CutoverRows \subseteq K /\ CacheStates \subseteq C
  BY <1>1, <1>2, Zenon DEF CutoverRows, CacheStates
<1>. QED BY <1>3 DEF K, C

\* Every variable keeps its type, a latched cache never says legacy, and without an
\* incident halt some phase can be resumed (resolve_resume_action).
THEOREM Resumable == Spec => []SwitchSound
<1>1. IInv => ResumeNeverStuck
  <2>1. ASSUME IInv, Resume(Fresh) = "fail-closed" PROVE control.gen = 3
    BY <2>1, FreshLemma, ResumeLemma DEF ReadOf
  <2>. QED BY <2>1, RowLemma DEF IInv, ResumeNeverStuck
<1>2. ASSUME IInv PROVE TypeOK
  <2>1. control \in [mode : Mode, epoch : 0..1, gen : 0..3]
    BY <1>2, RowLemma DEF IInv, ControlRows, Mode
  <2>2. quiesce \in [state : {"none", "open", "consumed"}, gen : 0..1, stamp : 0..MaxBoots]
    BY <1>2, RowLemma, BoundsAssumption DEF IInv, Durable
  <2>3. acks \subseteq [gen : 0..3, boot : 1..MaxBoots]
    BY <1>2 DEF IInv, Durable
  <2>4. cutover \in [status : {"idle", "running", "verified", "completed"},
                     session : BOOLEAN, gen : 0..3]
    <3>1. cutover \in {IdleCutover} \cup CutoverRows
      BY <1>2 DEF IInv, Durable, Rows
    <3>. QED BY <3>1, ShapesLemma
  <2>5. /\ snap \in [init : BOOLEAN, latched : BOOLEAN, mode : Mode, gen : 0..3]
        /\ snap.latched => snap.mode # "legacy"
    <3>1. snap \in CacheStates
      BY <1>2 DEF IInv, Cache
    <3>2. snap \in [init : BOOLEAN, latched : BOOLEAN, mode : Mode, gen : 0..3]
      BY <3>1, ShapesLemma
    <3>3. snap.latched => snap.mode # "legacy"
      BY <3>1 DEF CacheStates, Initial
    <3>. QED BY <3>2, <3>3
  <2>. QED BY <1>2, <2>1, <2>2, <2>3, <2>4, <2>5
       DEF IInv, Durable, Cache, JobsSound, Migration, TypeOK
<1>. QED BY <1>1, <1>2, InvariantHolds, PTL DEF SwitchSound

\* A revisioned value gives way only to eviction or to one at least as new, whatever
\* a writer, a mirror or the migrator that started earlier still has to write
\* (COMPARE_WRITE, MIGRATE_CAS).
THEOREM Monotone == Spec => NoDowngrade
<1>. DEFINE Kept ==
              redis.kind = "v2" => \/ redis'.kind = "none"
                                   \/ redis'.kind = "v2" /\ redis'.rev >= redis.rev
<1>1. ASSUME IInv, [Next]_vars PROVE [Kept]_redis
  <2>1. CASE DirectLands
    BY <1>1, <2>1, LandsLemma DEF DirectLands
  <2>2. CASE MirrorLands
    BY <1>1, <2>2, LandsLemma DEF MirrorLands
  <2>3. CASE MigrateWrite
    BY <1>1, <2>3, MigrateWriteLemma
  <2>4. CASE Evict
    <3>1. redis'.kind = "none"
      BY <2>4 DEF Evict
    <3>. QED BY <3>1
  <2>5. CASE Lifespan \/ UNCHANGED vars
    BY <2>5 DEF Lifespan, Start, Stop, RefreshBeforeWarmup, Warmup, StartScheduler,
                Acknowledge, Poll, vars
  <2>6. CASE DirectGate \/ DirectCommit \/ DirectEnds \/ MirrorGate \/ MirrorFails
    BY <2>6 DEF DirectGate, DirectCommit, DirectEnds, MirrorGate, MirrorFails
  <2>7. CASE Operate
    BY <2>7 DEF Operate, ReadState, CheckMigrated, GiveUp, Halt, BeginAtomic, Verify,
                Finalize, IncidentHalt
  <2>8. CASE Authorize \/ RevalidateThenFetchRow \/ FetchValue \/ MigrateRetry \/ MigratorEnds
    BY <2>8 DEF Authorize, RevalidateThenFetchRow, FetchValue, MigrateRetry, MigratorEnds
  <2>. QED BY <1>1, <2>1, <2>2, <2>3, <2>4, <2>5, <2>6, <2>7, <2>8 DEF Next, Write, Migrate
<1>. QED BY <1>1, InvariantHolds, PTL DEF Spec, NoDowngrade
================================================================================
