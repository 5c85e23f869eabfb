---------------------------- MODULE AtomicCoordinator ----------------------------
(***************************************************************************)
(* The FX publication coordinator (atomic_coordinator, wired by             *)
(* atomic_fx_live): the publication of one asset under its lock, the         *)
(* watermark of the last delivery in Redis (atomic_watermark,                *)
(* atomic_watermark_store), the marker of a delivery whose watermark could    *)
(* not be written, and the sequence source of a process.                     *)
(*                                                                          *)
(* A content is the number of its revision vector: vectors only grow, since  *)
(* the values in Redis are written by compare and set and a build from        *)
(* anything else is refused.  A lineage is the number of the takeovers before *)
(* it.  Feature flags, read once at start, are on.                           *)
(***************************************************************************)
EXTENDS Integers

CONSTANTS
    Callers,     \* tasks that publish the asset
    MaxRev,      \* bound: contents
    MaxSeq,      \* bound: publish sequence
    MaxFaults,   \* bound: restarts, evictions and takeovers
    None         \* nothing stored, nobody

ASSUME BoundsAssumption == {MaxRev, MaxSeq, MaxFaults} \subseteq Nat

VARIABLES
    rev,       \* newest content of the asset in Redis
    wm,        \* watermark:fx:<asset>, or None
    open,      \* the publisher gate of the cut-over snapshot
    lineage,   \* its session and generation
    lock,      \* who is inside _publish_locked, or None
    call,      \* where each publish_asset call is
    marker,    \* _markers[asset]: delivered, its watermark not written, or None
    issued,    \* _InMemorySeqSource._last, by lineage
    out,       \* history: the content delivered last
    sends,     \* history: deliveries
    high,      \* history: highest sequence this process stored, by lineage
    faults     \* restarts, evictions and takeovers so far

process == <<lock, call, marker, issued>>
history == <<out, sends, high>>
world == <<rev, open, lineage>>
vars == <<world, wm, process, history, faults>>

Lineages == 0..MaxFaults
Watermark == [lin : Lineages, seq : 1..MaxSeq, rev : 1..MaxRev]
ASSUME NoneAssumption == None \notin Watermark \cup Callers

Idle == [at |-> "idle", current |-> None, rev |-> 0, real |-> None]
Unissued == [l \in Lineages |-> 0]

Init ==
    /\ rev = 0
    /\ wm = None
    /\ open = TRUE
    /\ lineage = 0
    /\ lock = None
    /\ call = [c \in Callers |-> Idle]
    /\ marker = None
    /\ issued = Unissued
    /\ out = 0
    /\ sends = 0
    /\ high = Unissued
    /\ faults = 0

-----------------------------------------------------------------------------
(* Pure helpers                                                              *)

\* classify_watermark_relation.
Relation(current, incoming) ==
    IF current = None THEN "no_current"
    ELSE IF current.lin # incoming.lin THEN "lineage_mismatch"
    ELSE IF incoming.seq > current.seq THEN "newer"
    ELSE IF incoming.seq < current.seq THEN "older"
    ELSE IF incoming.rev = current.rev THEN "same"
    ELSE "divergent"

Writes_Takeover(current, incoming) ==
    Relation(current, incoming) \in {"no_current", "newer", "lineage_mismatch"}

\* write_action_for_relation is WRITE.
Writes(current, incoming) == Relation(current, incoming) \in {"no_current", "newer"}

\* The sequence of a delivery: the next of its lineage, above the watermark read.
Assigned(current) ==
    IF current # None /\ current.lin = lineage /\ current.seq > issued[lineage]
    THEN current.seq + 1 ELSE issued[lineage] + 1

Observed_WrittenOnly(seq) == issued

\* observe_assigned.
Observed(seq) == [issued EXCEPT ![lineage] = IF seq > @ THEN seq ELSE @]

Stored(w) == high' = [high EXCEPT ![w.lin] = IF w.seq > @ THEN w.seq ELSE @]

-----------------------------------------------------------------------------
(* publish_asset                                                             *)

To(c, at) == call' = [call EXCEPT ![c].at = at]

\* publish_asset leaves the lock, with a result or an exception.
Leave(c) ==
    /\ lock' = None
    /\ call' = [call EXCEPT ![c] = Idle]

Enter(c) ==
    /\ call[c].at = "idle"
    /\ To(c, "waiting")
    /\ UNCHANGED <<world, wm, lock, marker, issued, history, faults>>

LockFree == lock = None

\* The lock is taken; a marker short-cuts the publication, a closed gate ends it.
Acquire(c) ==
    /\ call[c].at = "waiting"
    /\ LockFree
    /\ IF marker = None /\ ~open
       THEN Leave(c)
       ELSE lock' = c /\ To(c, IF marker # None THEN "recovering" ELSE "reading")
    /\ UNCHANGED <<world, wm, marker, issued, history, faults>>

\* watermark_reader: an outage raises out of publish_asset.
ReadWatermark(c) ==
    /\ call[c].at = "reading"
    /\ \/ Leave(c)
       \/ call' = [call EXCEPT ![c].at = "building", ![c].current = wm] /\ UNCHANGED lock
    /\ UNCHANGED <<world, wm, marker, issued, history, faults>>

Deduplicated_Never(current) == FALSE

\* SKIP_DEDUP_IDENTICAL: the content is the watermark's, whatever its lineage.
Deduplicated(current) == current # None /\ current.rev = rev

\* The payload is built and decided upon: a malformed build, a failed or
\* conflicting write outcome or no subscriber end the call, as does a duplicate.
Build(c) ==
    /\ call[c].at = "building"
    /\ \/ Leave(c)
       \/ /\ rev > 0
          /\ ~Deduplicated(call[c].current)
          /\ call' = [call EXCEPT ![c].at = "sending", ![c].rev = rev]
          /\ UNCHANGED lock
    /\ UNCHANGED <<world, wm, marker, issued, history, faults>>

\* publisher_fn: nobody got it, or somebody did.
Send(c) ==
    /\ call[c].at = "sending"
    /\ \/ Leave(c) /\ UNCHANGED <<out, sends>>
       \/ /\ Assigned(call[c].current) <= MaxSeq
          /\ out' = call[c].rev
          /\ sends' = sends + 1
          /\ To(c, "sent")
          /\ UNCHANGED lock
    /\ UNCHANGED <<world, wm, marker, issued, high, faults>>

\* The rest of _send_and_commit up to the write, in the lineage of now.
Commit(c) ==
    LET current == call[c].current
        real == [lin |-> lineage, seq |-> Assigned(current), rev |-> call[c].rev]
    IN  /\ call[c].at = "sent"
        /\ real.seq <= MaxSeq
        /\ issued' = Observed(real.seq)
        /\ IF Writes(current, real)
           THEN /\ call' = [call EXCEPT ![c].at = "writing", ![c].real = real]
                /\ UNCHANGED lock
           ELSE Leave(c)
        /\ UNCHANGED <<world, wm, marker, history, faults>>

\* What a failed write leaves in _markers.
Kept(w) == w

\* watermark_writer: stored and acknowledged; or False, stored or not.
WriteWatermark(c) ==
    /\ call[c].at = "writing"
    /\ \/ wm' = call[c].real /\ Stored(call[c].real) /\ UNCHANGED marker
       \/ wm' = call[c].real /\ Stored(call[c].real) /\ marker' = Kept(call[c].real)
       \/ marker' = Kept(call[c].real) /\ UNCHANGED <<wm, high>>
    /\ Leave(c)
    /\ UNCHANGED <<world, issued, out, sends, faults>>

\* _recover_marker: the watermark is read again (an outage raises).
RecoverRead(c) ==
    /\ call[c].at = "recovering"
    /\ \/ Leave(c) /\ UNCHANGED marker
       \/ /\ Writes(wm, marker)
          /\ To(c, "rewriting")
          /\ UNCHANGED <<lock, marker>>
       \/ /\ ~Writes(wm, marker)
          /\ marker' = None
          /\ Leave(c)
    /\ UNCHANGED <<world, wm, issued, history, faults>>

\* The marker's write: it stays only when the write reports a failure.
RecoverWrite(c) ==
    /\ call[c].at = "rewriting"
    /\ \/ wm' = marker /\ Stored(marker) /\ marker' = None
       \/ wm' = marker /\ Stored(marker) /\ UNCHANGED marker
       \/ UNCHANGED <<wm, high, marker>>
    /\ Leave(c)
    /\ UNCHANGED <<world, issued, out, sends, faults>>

-----------------------------------------------------------------------------
(* The surroundings                                                          *)

\* A rate of the asset is written to Redis.
Tick ==
    /\ rev < MaxRev
    /\ rev' = rev + 1
    /\ UNCHANGED <<wm, open, lineage, process, history, faults>>

\* The cut-over snapshot opens or closes the gate.
MoveGate ==
    /\ open' = ~open
    /\ UNCHANGED <<rev, lineage, wm, process, history, faults>>

Faulty == faults < MaxFaults /\ faults' = faults + 1

\* A new cut-over session while the gate is closed.
Takeover ==
    /\ Faulty
    /\ ~open
    /\ lineage' = lineage + 1
    /\ UNCHANGED <<rev, open, wm, process, history>>

\* Redis drops the key, or its value is found corrupt.
Evict ==
    /\ Faulty
    /\ wm # None
    /\ wm' = None
    /\ UNCHANGED <<world, process, history>>

\* The process dies and starts again.
Restart ==
    /\ Faulty
    /\ lock' = None
    /\ call' = [c \in Callers |-> Idle]
    /\ marker' = None
    /\ issued' = Unissued
    /\ high' = Unissued
    /\ UNCHANGED <<world, wm, out, sends>>

Publish(c) ==
    \/ Enter(c) \/ Acquire(c) \/ ReadWatermark(c) \/ Build(c) \/ Send(c) \/ Commit(c)
    \/ WriteWatermark(c) \/ RecoverRead(c) \/ RecoverWrite(c)

Next ==
    \/ \E c \in Callers : Publish(c)
    \/ Tick \/ MoveGate \/ Takeover \/ Evict \/ Restart

Spec == Init /\ [][Next]_vars

-----------------------------------------------------------------------------
(* Properties                                                                *)

At == {"idle", "waiting", "reading", "building", "sending", "sent", "writing",
       "recovering", "rewriting"}

Call == [at : At, current : Watermark \cup {None}, rev : 0..MaxRev,
         real : Watermark \cup {None}]

\* Type invariant; a sequence starts at one.
TypeOK ==
    /\ rev \in 0..MaxRev
    /\ wm \in Watermark \cup {None}
    /\ open \in BOOLEAN
    /\ lineage \in Lineages
    /\ lock \in Callers \cup {None}
    /\ call \in [Callers -> Call]
    /\ marker \in Watermark \cup {None}
    /\ issued \in [Lineages -> 0..MaxSeq]
    /\ out \in 0..MaxRev
    /\ sends \in Nat
    /\ high \in [Lineages -> 0..MaxSeq]
    /\ faults \in 0..MaxFaults

\* A marker is never outrun: while a delivery waits for its watermark, Redis holds
\* nothing, that very watermark, or an earlier one of the same lineage - never
\* something the retry would have to skip as stale, divergent or foreign
\* (atomic_coordinator._recover_marker).
MarkerNeverOutrun ==
    (marker # None /\ wm # None) =>
        wm.lin = marker.lin /\ (wm = marker \/ wm.seq < marker.seq)

\* As long as the process lives, the sequence it stores for a lineage never falls
\* back, even after Redis evicted the watermark (_InMemorySeqSource, "eviction-alive").
SequenceNeverRegresses == wm # None => wm.seq >= high[wm.lin]

(* Refinement: what the coordinator remembers is the delivery in its hands, else  *)
(* the marker, else the watermark in Redis.                                       *)

\* The watermark of w does not carry this lineage: a delivery is not recorded over it.
Foreign(w) == w # None /\ w.lin # lineage

\* A delivery whose watermark is still to be stored, or is not compared yet.
InHand ==
    /\ lock # None
    /\ \/ call[lock].at = "writing"
       \/ call[lock].at = "sent" /\ ~Foreign(call[lock].current)

Known ==
    IF InHand THEN call[lock].rev
    ELSE IF marker # None THEN marker.rev
    ELSE IF wm # None THEN wm.rev ELSE 0

Recording ==
    /\ ~Foreign(wm) /\ ~Foreign(marker)
    /\ lock # None => ~Foreign(call[lock].current) /\ ~Foreign(call[lock].real)

PO == INSTANCE PublishOnce WITH known <- Known, recording <- Recording

\* Two publications of one asset, failed watermark writes, restarts, evictions and
\* takeovers: between faults nothing is delivered twice nor after something newer,
\* except unrecorded under a foreign watermark (atomic_coordinator._publish_locked,
\* _send_and_commit, _recover_marker).
PublishesOnce == PO!Spec
================================================================================
