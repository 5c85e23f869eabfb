------------------------- MODULE AtomicCoordinatorProofs -------------------------
(***************************************************************************)
(* Proofs about AtomicCoordinator for any callers and any bounds.           *)
(*                                                                          *)
(* The lock makes one call at a time the only one that matters: IInv says    *)
(* what holds of the call inside it (Inside) by its phase, that the others   *)
(* carry nothing (Outside), and how the three places of a sequence - the     *)
(* source, the watermark and the marker - stand to each other (Sequences).   *)
(***************************************************************************)
EXTENDS AtomicCoordinator, TLAPS

Outside(c) ==
    /\ call[c].at \in {"idle", "waiting"}
    /\ call[c].current = None
    /\ call[c].real = None

\* A publication starts only without a marker.
MarkerPart(c) == (marker # None) <=> call[c].at \in {"recovering", "rewriting"}

\* Nobody else stores, so the watermark is the one that was read, or evicted.
ReadPart(c) ==
    call[c].at \in {"building", "sending", "sent", "writing"} =>
        wm = None \/ wm = call[c].current

\* What is delivered is newer than what was recorded.
RevPart(c) ==
    call[c].at \in {"sending", "sent", "writing"} =>
        /\ call[c].rev >= 1
        /\ call[c].current # None => call[c].current.rev < call[c].rev

\* What is written follows what was read.
RealPart(c) ==
    call[c].at = "writing" =>
        /\ call[c].real # None
        /\ call[c].real.rev = call[c].rev
        /\ call[c].real.seq > high[call[c].real.lin]
        /\ call[c].real.seq <= issued[call[c].real.lin]
        /\ call[c].current # None =>
              /\ call[c].current.lin = call[c].real.lin
              /\ call[c].current.seq < call[c].real.seq

Inside(c) ==
    /\ call[c].at \notin {"idle", "waiting"}
    /\ MarkerPart(c) /\ ReadPart(c) /\ RevPart(c) /\ RealPart(c)
    /\ call[c].current # None => call[c].current.rev <= rev

Locked == \A c \in Callers : IF lock = c THEN Inside(c) ELSE Outside(c)

Revisions ==
    /\ wm # None => wm.rev <= rev
    /\ marker # None => marker.rev <= rev
    /\ \A c \in Callers : call[c].rev <= rev

Sequences ==
    /\ \A l \in Lineages : high[l] <= issued[l]
    /\ marker # None => /\ marker.seq >= high[marker.lin]
                        /\ marker.seq <= issued[marker.lin]
    /\ SequenceNeverRegresses

IInv ==
    /\ TypeOK
    /\ lineage <= faults
    /\ Locked
    /\ Revisions
    /\ Sequences
    /\ MarkerNeverOutrun

-----------------------------------------------------------------------------
LEMMA InitHolds == Init => IInv
  BY BoundsAssumption, NoneAssumption
  DEF Init, IInv, TypeOK, Locked, Outside, Idle, Revisions, Sequences, MarkerNeverOutrun,
      SequenceNeverRegresses, Unissued, Lineages, Call, At, Watermark

LEMMA EnterStep ==
    ASSUME IInv, NEW c \in Callers, Enter(c)
    PROVE  IInv'
<1>. USE DEF Enter, To, IInv, world, history
<1>1. TypeOK'
  BY DEF TypeOK, Call, At
<1>2. Locked'
  BY NoneAssumption DEF Locked, Outside, Inside, MarkerPart, ReadPart, RevPart, RealPart, TypeOK, Call
<1>3. Revisions'
  BY DEF Revisions, TypeOK, Call
<1>4. Sequences' /\ MarkerNeverOutrun'
  BY DEF Sequences, MarkerNeverOutrun, SequenceNeverRegresses
<1>. QED BY <1>1, <1>2, <1>3, <1>4

LEMMA AcquireStep ==
    ASSUME IInv, NEW c \in Callers, Acquire(c)
    PROVE  IInv'
<1>. USE DEF Acquire, Leave, To, LockFree, IInv, world, history
<1>1. TypeOK'
  BY NoneAssumption, BoundsAssumption DEF TypeOK, Call, At, Idle
<1>2. Locked'
  BY NoneAssumption DEF Locked, Outside, Inside, MarkerPart, ReadPart, RevPart, RealPart, TypeOK, Call, Idle
<1>3. Revisions'
  BY DEF Revisions, TypeOK, Call, Idle
<1>4. Sequences' /\ MarkerNeverOutrun'
  BY DEF Sequences, MarkerNeverOutrun, SequenceNeverRegresses
<1>. QED BY <1>1, <1>2, <1>3, <1>4

LEMMA WritesLemma ==
    ASSUME NEW w \in Watermark \cup {None}, NEW n \in Watermark
    PROVE  Writes(w, n) <=> w = None \/ (w.lin = n.lin /\ w.seq < n.seq)
  BY NoneAssumption, BoundsAssumption DEF Writes, Relation, Watermark, Lineages

LEMMA AssignedLemma ==
    ASSUME IInv, NEW w \in Watermark \cup {None}
    PROVE  /\ Assigned(w) \in Nat \ {0}
           /\ Assigned(w) > issued[lineage]
           /\ w # None /\ w.lin = lineage => Assigned(w) > w.seq
<1>1. issued[lineage] \in Nat
  BY DEF IInv, TypeOK
<1>2. CASE w # None /\ w.lin = lineage /\ w.seq > issued[lineage]
  <2>1. w.seq \in Nat
    BY <1>2 DEF Watermark
  <2>. QED BY <1>1, <1>2, <2>1 DEF Assigned
<1>3. CASE ~(w # None /\ w.lin = lineage /\ w.seq > issued[lineage])
  <2>1. Assigned(w) = issued[lineage] + 1
    BY <1>3 DEF Assigned
  <2>2. w # None => w.seq \in Nat
    BY DEF Watermark
  <2>. QED BY <1>1, <1>3, <2>1, <2>2
<1>. QED BY <1>2, <1>3

\* Who is past the lock holds it, and the others hold nothing.
LEMMA HolderLemma ==
    ASSUME IInv, NEW c \in Callers, call[c].at \notin {"idle", "waiting"}
    PROVE  /\ lock = c /\ Inside(c) /\ call[c] \in Call
           /\ \A d \in Callers \ {c} : Outside(d)
  BY DEF IInv, Locked, Outside, TypeOK

LEMMA LeaveLemma ==
    ASSUME IInv, NEW c \in Callers, lock = c, Leave(c)
    PROVE  /\ lock' = None
           /\ call' \in [Callers -> Call]
           /\ \A d \in Callers : call'[d].rev <= rev
           /\ Locked'
<1>1. Idle \in Call /\ Idle.rev <= rev
  BY BoundsAssumption DEF Idle, Call, At, IInv, TypeOK
<1>2. \A d \in Callers : call'[d] = IF d = c THEN Idle ELSE call[d]
  BY DEF Leave, IInv, TypeOK
<1>3. \A d \in Callers : Outside(d)'
  BY <1>2 DEF Outside, Idle, IInv, Locked
<1>. QED
  BY <1>1, <1>2, <1>3, NoneAssumption DEF Leave, Locked, IInv, TypeOK, Revisions

LEMMA StayLemma ==
    ASSUME IInv, NEW c \in Callers, lock = c, UNCHANGED lock,
           NEW v \in Call, v.rev <= rev, call' = [call EXCEPT ![c] = v]
    PROVE  /\ call' \in [Callers -> Call]
           /\ call'[c] = v
           /\ \A d \in Callers : call'[d].rev <= rev
           /\ Inside(c)' => Locked'
<1>1. \A d \in Callers : call'[d] = IF d = c THEN v ELSE call[d]
  BY DEF IInv, TypeOK
<1>2. \A d \in Callers \ {c} : Outside(d)'
  BY <1>1 DEF Outside, IInv, Locked
<1>. QED
  BY <1>1, <1>2 DEF Locked, IInv, TypeOK, Revisions

LEMMA ReadWatermarkStep ==
    ASSUME IInv, NEW c \in Callers, ReadWatermark(c)
    PROVE  IInv'
<1>. DEFINE v == [call[c] EXCEPT !.at = "building", !.current = wm]
<1>1. lock = c /\ Inside(c) /\ call[c] \in Call
  BY HolderLemma DEF ReadWatermark
<1>2. /\ call' \in [Callers -> Call]
      /\ \A d \in Callers : call'[d].rev <= rev
      /\ Locked'
      /\ lock' \in Callers \cup {None}
  <2>1. CASE Leave(c)
    BY <1>1, <2>1, LeaveLemma
  <2>2. CASE call' = [call EXCEPT ![c] = v] /\ UNCHANGED lock
    <3>1. v \in Call /\ v.at = "building" /\ v.current = wm /\ v.rev <= rev
      BY <1>1 DEF Call, At, IInv, TypeOK, Revisions
    <3>2. call'[c] = v
      BY <1>1, <2>2, <3>1, StayLemma
    <3>3. Inside(c)'
      BY <1>1, <3>1, <3>2
      DEF ReadWatermark, world, Inside, MarkerPart, ReadPart, RevPart, RealPart, IInv, Revisions
    <3>. QED BY <1>1, <2>2, <3>1, <3>3, StayLemma
  <2>. QED BY <2>1, <2>2 DEF ReadWatermark
<1>. QED
  BY <1>2 DEF ReadWatermark, IInv, TypeOK, Revisions, Sequences, SequenceNeverRegresses,
              MarkerNeverOutrun, world, history

LEMMA BuildStep ==
    ASSUME IInv, NEW c \in Callers, Build(c)
    PROVE  IInv'
<1>. DEFINE v == [call[c] EXCEPT !.at = "sending", !.rev = rev]
<1>1. lock = c /\ Inside(c) /\ call[c] \in Call
  BY HolderLemma DEF Build
<1>2. /\ call' \in [Callers -> Call]
      /\ \A d \in Callers : call'[d].rev <= rev
      /\ Locked'
      /\ lock' \in Callers \cup {None}
  <2>1. CASE Leave(c)
    BY <1>1, <2>1, LeaveLemma
  <2>2. CASE /\ rev > 0 /\ ~Deduplicated(call[c].current)
             /\ call' = [call EXCEPT ![c] = v] /\ UNCHANGED lock
    <3>1. v \in Call /\ v.at = "sending" /\ v.rev = rev /\ v.current = call[c].current
      BY <1>1 DEF Call, At, IInv, TypeOK
    <3>2. call'[c] = v
      BY <1>1, <2>2, <3>1, StayLemma DEF IInv, TypeOK
    <3>. HIDE DEF v
    <3>3. v.current # None => v.current.rev < rev
      <4>1. /\ call[c].current # None => call[c].current.rev <= rev
            /\ call[c].current # None => call[c].current.rev # rev
        BY <1>1, <2>2 DEF Inside, Deduplicated
      <4>2. call[c].current # None => call[c].current.rev \in Nat
        BY <1>1 DEF Call, Watermark
      <4>3. rev \in Nat
        BY DEF IInv, TypeOK
      <4>. QED BY <3>1, <4>1, <4>2, <4>3
    <3>4. Inside(c)'
      BY <1>1, <2>2, <3>1, <3>2, <3>3
      DEF Build, world, Inside, MarkerPart, ReadPart, RevPart, RealPart, IInv, TypeOK
    <3>5. rev <= rev /\ lock \in Callers \cup {None}
      BY DEF IInv, TypeOK
    <3>. QED BY <1>1, <2>2, <3>1, <3>4, <3>5, StayLemma
  <2>. QED BY <2>1, <2>2 DEF Build
<1>. QED
  BY <1>2 DEF Build, IInv, TypeOK, Revisions, Sequences, SequenceNeverRegresses,
              MarkerNeverOutrun, world, history

LEMMA SendStep ==
    ASSUME IInv, NEW c \in Callers, Send(c)
    PROVE  IInv'
<1>. DEFINE v == [call[c] EXCEPT !.at = "sent"]
<1>1. lock = c /\ Inside(c) /\ call[c] \in Call /\ call[c].rev <= rev
  BY HolderLemma DEF Send, IInv, Revisions
<1>2. /\ call' \in [Callers -> Call]
      /\ \A d \in Callers : call'[d].rev <= rev
      /\ Locked'
      /\ lock' \in Callers \cup {None}
  <2>1. CASE Leave(c)
    BY <1>1, <2>1, LeaveLemma
  <2>2. CASE To(c, "sent") /\ UNCHANGED lock
    <3>1. /\ v \in Call /\ v.at = "sent"
          /\ v.rev = call[c].rev /\ v.current = call[c].current
      BY <1>1 DEF Call, At
    <3>2. call' = [call EXCEPT ![c] = v]
      BY <2>2 DEF To
    <3>3. call'[c] = v
      BY <1>1, <2>2, <3>1, <3>2, StayLemma
    <3>4. Inside(c)'
      BY <1>1, <3>1, <3>3
      DEF Send, world, Inside, MarkerPart, ReadPart, RevPart, RealPart
    <3>. QED BY <1>1, <2>2, <3>1, <3>2, <3>4, StayLemma
  <2>. QED BY <2>1, <2>2 DEF Send
<1>3. out' \in 0..MaxRev /\ sends' \in Nat
  BY <1>1 DEF Send, Call, IInv, TypeOK
<1>. QED
  BY <1>2, <1>3 DEF Send, IInv, TypeOK, Revisions, Sequences, SequenceNeverRegresses,
                    MarkerNeverOutrun, world

LEMMA CommitStep ==
    ASSUME IInv, NEW c \in Callers, Commit(c)
    PROVE  IInv'
<1>. DEFINE current == call[c].current
            real == [lin |-> lineage, seq |-> Assigned(current), rev |-> call[c].rev]
            v == [call[c] EXCEPT !.at = "writing", !.real = real]
<1>1. lock = c /\ Inside(c) /\ call[c] \in Call /\ call[c].rev <= rev
  BY HolderLemma DEF Commit, IInv, Revisions
<1>2. current \in Watermark \cup {None} /\ call[c].rev \in 1..MaxRev
  BY <1>1 DEF Call, Inside, RevPart, Commit
<1>3. real \in Watermark /\ real.seq > issued[lineage] /\ lineage \in Lineages
  BY <1>2, AssignedLemma DEF Commit, Watermark, IInv, TypeOK
<1>4. /\ issued' \in [Lineages -> 0..MaxSeq]
      /\ issued'[lineage] = real.seq
      /\ \A l \in Lineages : issued[l] <= issued'[l]
  BY <1>3 DEF Commit, Observed, IInv, TypeOK, Watermark
<1>5. /\ call' \in [Callers -> Call]
      /\ \A d \in Callers : call'[d].rev <= rev
      /\ Locked'
      /\ lock' \in Callers \cup {None}
  <2>1. CASE Leave(c)
    BY <1>1, <2>1, LeaveLemma
  <2>2. CASE Writes(current, real) /\ call' = [call EXCEPT ![c] = v] /\ UNCHANGED lock
    <3>1. /\ v \in Call /\ v.at = "writing" /\ v.real = real
          /\ v.rev = call[c].rev /\ v.current = current
      BY <1>1, <1>3 DEF Call, At
    <3>2. call'[c] = v
      BY <1>1, <2>2, <3>1, StayLemma
    <3>3. current # None => current.lin = lineage /\ current.seq < real.seq
      BY <1>2, <1>3, <2>2, WritesLemma
    <3>4. real # None /\ real.lin = lineage /\ real.rev = call[c].rev
      BY <1>3, NoneAssumption
    <3>5. high[lineage] < real.seq /\ high' = high
      BY <1>3 DEF Commit, history, IInv, Sequences, TypeOK, Watermark
    <3>6. RealPart(c)'
      BY <1>4, <3>1, <3>2, <3>3, <3>4, <3>5, <1>3 DEF RealPart, Watermark
    <3>7. Inside(c)'
      BY <1>1, <3>1, <3>2, <3>6
      DEF Commit, world, Inside, MarkerPart, ReadPart, RevPart
    <3>. QED BY <1>1, <2>2, <3>1, <3>7, StayLemma
  <2>. QED BY <2>1, <2>2 DEF Commit
<1>6. Sequences'
  BY <1>4 DEF Commit, IInv, TypeOK, Sequences, SequenceNeverRegresses, Watermark, history
<1>. QED
  BY <1>4, <1>5, <1>6 DEF Commit, IInv, TypeOK, Revisions, MarkerNeverOutrun, world, history

\* What a write that is stored leaves of the sequences.
LEMMA StoredLemma ==
    ASSUME IInv, NEW w \in Watermark, w.seq >= high[w.lin], w.seq <= issued[w.lin],
           Stored(w)
    PROVE  /\ high' \in [Lineages -> 0..MaxSeq]
           /\ high'[w.lin] = w.seq
           /\ \A l \in Lineages : high'[l] <= issued[l]
  BY DEF Stored, Watermark, IInv, TypeOK, Sequences

LEMMA WriteStep ==
    ASSUME IInv, NEW c \in Callers, WriteWatermark(c)
    PROVE  IInv'
<1>. DEFINE real == call[c].real
<1>1. lock = c /\ Inside(c) /\ call[c] \in Call /\ call[c].rev <= rev
  BY HolderLemma DEF WriteWatermark, IInv, Revisions
<1>2. /\ real \in Watermark /\ real.rev <= rev
      /\ real.seq >= high[real.lin] /\ real.seq <= issued[real.lin]
      /\ wm # None => wm.lin = real.lin /\ wm.seq < real.seq
      /\ marker = None
  BY <1>1 DEF Inside, RealPart, ReadPart, MarkerPart, Call, WriteWatermark, IInv, TypeOK,
              Watermark
<1>3. /\ lock' = None /\ call' \in [Callers -> Call]
      /\ \A d \in Callers : call'[d].rev <= rev
      /\ Locked'
  BY <1>1, LeaveLemma DEF WriteWatermark
<1>4. \/ wm' = real /\ Stored(real) /\ marker' \in {None, real}
      \/ wm' = wm /\ high' = high /\ marker' = real
  BY <1>2 DEF WriteWatermark, Kept
<1>5. /\ wm' \in Watermark \cup {None} /\ marker' \in Watermark \cup {None}
      /\ high' \in [Lineages -> 0..MaxSeq]
      /\ Sequences' /\ MarkerNeverOutrun'
      /\ wm' # None => wm'.rev <= rev
      /\ marker' # None => marker'.rev <= rev
  <2>1. CASE wm' = real /\ Stored(real) /\ marker' \in {None, real}
    BY <1>2, <2>1, StoredLemma
    DEF WriteWatermark, IInv, TypeOK, Sequences, SequenceNeverRegresses, MarkerNeverOutrun,
        Watermark
  <2>2. CASE wm' = wm /\ high' = high /\ marker' = real
    BY <1>2, <2>2
    DEF WriteWatermark, IInv, TypeOK, Revisions, Sequences, SequenceNeverRegresses,
        MarkerNeverOutrun
  <2>. QED BY <1>4, <2>1, <2>2
<1>. QED
  BY <1>3, <1>5 DEF WriteWatermark, IInv, TypeOK, Revisions, world

LEMMA RecoverReadStep ==
    ASSUME IInv, NEW c \in Callers, RecoverRead(c)
    PROVE  IInv'
<1>. DEFINE v == [call[c] EXCEPT !.at = "rewriting"]
<1>1. lock = c /\ Inside(c) /\ call[c] \in Call /\ call[c].rev <= rev
  BY HolderLemma DEF RecoverRead, IInv, Revisions
<1>2. /\ call' \in [Callers -> Call]
      /\ \A d \in Callers : call'[d].rev <= rev
      /\ Locked'
      /\ lock' \in Callers \cup {None}
  <2>1. CASE Leave(c)
    BY <1>1, <2>1, LeaveLemma
  <2>2. CASE To(c, "rewriting") /\ UNCHANGED <<lock, marker>>
    <3>1. v \in Call /\ v.at = "rewriting" /\ v.rev <= rev /\ v.current = call[c].current
      BY <1>1 DEF Call, At
    <3>2. call' = [call EXCEPT ![c] = v]
      BY <2>2 DEF To
    <3>3. call'[c] = v
      BY <1>1, <2>2, <3>1, <3>2, StayLemma
    <3>4. Inside(c)'
      BY <1>1, <2>2, <3>1, <3>3
      DEF RecoverRead, world, Inside, MarkerPart, ReadPart, RevPart, RealPart
    <3>. QED BY <1>1, <2>2, <3>1, <3>2, <3>4, StayLemma
  <2>. QED BY <2>1, <2>2 DEF RecoverRead
<1>. QED
  BY <1>2 DEF RecoverRead, IInv, TypeOK, Revisions, Sequences, SequenceNeverRegresses,
              MarkerNeverOutrun, world, history

LEMMA RecoverWriteStep ==
    ASSUME IInv, NEW c \in Callers, RecoverWrite(c)
    PROVE  IInv'
<1>1. lock = c /\ Inside(c)
  BY HolderLemma DEF RecoverWrite
<1>2. /\ marker \in Watermark
      /\ marker.seq >= high[marker.lin] /\ marker.seq <= issued[marker.lin]
  BY <1>1 DEF Inside, MarkerPart, RecoverWrite, IInv, TypeOK, Sequences
<1>3. /\ lock' = None /\ call' \in [Callers -> Call]
      /\ \A d \in Callers : call'[d].rev <= rev
      /\ Locked'
  BY <1>1, LeaveLemma DEF RecoverWrite
<1>4. \/ wm' = marker /\ Stored(marker) /\ marker' \in {None, marker}
      \/ UNCHANGED <<wm, high, marker>>
  BY DEF RecoverWrite
<1>5. /\ wm' \in Watermark \cup {None} /\ marker' \in Watermark \cup {None}
      /\ high' \in [Lineages -> 0..MaxSeq]
      /\ Sequences' /\ MarkerNeverOutrun'
      /\ wm' # None => wm'.rev <= rev
      /\ marker' # None => marker'.rev <= rev
  <2>1. CASE wm' = marker /\ Stored(marker) /\ marker' \in {None, marker}
    BY <1>2, <2>1, StoredLemma, NoneAssumption
    DEF RecoverWrite, IInv, TypeOK, Revisions, Sequences, SequenceNeverRegresses,
        MarkerNeverOutrun, Watermark
  <2>2. CASE UNCHANGED <<wm, high, marker>>
    BY <1>2, <2>2
    DEF RecoverWrite, IInv, TypeOK, Revisions, Sequences, SequenceNeverRegresses,
        MarkerNeverOutrun
  <2>. QED BY <1>4, <2>1, <2>2
<1>. QED
  BY <1>3, <1>5 DEF RecoverWrite, IInv, TypeOK, Revisions, world

LEMMA TickStep == IInv /\ Tick => IInv'
<1>. SUFFICES ASSUME IInv, Tick PROVE IInv'
  OBVIOUS
<1>. USE DEF Tick, process, history
<1>1. TypeOK' /\ Revisions'
  BY BoundsAssumption DEF IInv, TypeOK, Revisions, Call, Watermark
<1>2. Locked'
  <2>1. ASSUME NEW c \in Callers, Inside(c) PROVE Inside(c)'
    BY <2>1 DEF Inside, MarkerPart, ReadPart, RevPart, RealPart, IInv, TypeOK, Call, Watermark
  <2>. QED BY <2>1 DEF IInv, Locked, Outside
<1>. QED
  BY <1>1, <1>2 DEF IInv, Sequences, SequenceNeverRegresses, MarkerNeverOutrun

LEMMA SurroundingSteps == IInv /\ (MoveGate \/ Takeover \/ Evict) => IInv'
<1>. SUFFICES ASSUME IInv, MoveGate \/ Takeover \/ Evict PROVE IInv'
  OBVIOUS
<1>. USE DEF MoveGate, Takeover, Evict, Faulty, process, history, world
<1>1. TypeOK' /\ lineage' <= faults'
  <2>1. CASE MoveGate
    BY <2>1 DEF IInv, TypeOK
  <2>2. CASE Takeover \/ Evict
    <3>1. lineage' <= faults' /\ faults' \in 0..MaxFaults /\ lineage' \in Lineages
      BY <2>2, BoundsAssumption DEF IInv, TypeOK, Lineages
    <3>. QED BY <2>2, <3>1 DEF IInv, TypeOK
  <2>. QED BY <2>1, <2>2
<1>2. Locked'
  <2>1. ASSUME NEW c \in Callers, Inside(c) PROVE Inside(c)'
    BY <2>1 DEF Inside, MarkerPart, ReadPart, RevPart, RealPart
  <2>. QED BY <2>1 DEF IInv, Locked, Outside
<1>. QED
  BY <1>1, <1>2
  DEF IInv, Revisions, Sequences, SequenceNeverRegresses, MarkerNeverOutrun

LEMMA RestartStep == IInv /\ Restart => IInv'
<1>. SUFFICES ASSUME IInv, Restart PROVE IInv'
  OBVIOUS
<1>. USE DEF Restart, Faulty, Idle, Unissued, world
<1>1. TypeOK' /\ lineage' <= faults'
  BY BoundsAssumption DEF IInv, TypeOK, Call, At, Lineages
<1>2. Locked' /\ Revisions'
  BY NoneAssumption DEF IInv, TypeOK, Locked, Outside, Revisions
<1>. QED
  BY <1>1, <1>2
  DEF IInv, TypeOK, Sequences, SequenceNeverRegresses, MarkerNeverOutrun, Watermark, Lineages

LEMMA StepHolds == IInv /\ [Next]_vars => IInv'
<1>. SUFFICES ASSUME IInv, [Next]_vars PROVE IInv'
  OBVIOUS
<1>1. ASSUME NEW c \in Callers, Publish(c) PROVE IInv'
  BY <1>1, EnterStep, AcquireStep, ReadWatermarkStep, BuildStep, SendStep, CommitStep,
     WriteStep, RecoverReadStep, RecoverWriteStep DEF Publish
<1>2. CASE UNCHANGED vars
  BY <1>2 DEF vars, world, process, history, IInv, TypeOK, Locked, Outside, Inside,
     MarkerPart, ReadPart, RevPart, RealPart, Revisions, Sequences, SequenceNeverRegresses,
     MarkerNeverOutrun
<1>. QED
  BY <1>1, <1>2, TickStep, SurroundingSteps, RestartStep DEF Next

LEMMA InvariantHolds == Spec => []IInv
  BY InitHolds, StepHolds, PTL DEF Spec

\* The coordinator's variables keep their types, for any callers and bounds (TypeOK).
THEOREM TypeCorrect == Spec => []TypeOK
<1>1. IInv => TypeOK
  BY DEF IInv
<1>. QED BY <1>1, InvariantHolds, PTL

\* A retry of a watermark write is never outrun by another publication, whatever
\* writes fail, answers are lost, keys are evicted and sessions taken over
\* (MarkerNeverOutrun, atomic_coordinator._recover_marker).
THEOREM MarkersNotOutrun == Spec => []MarkerNeverOutrun
<1>1. IInv => MarkerNeverOutrun
  BY DEF IInv
<1>. QED BY <1>1, InvariantHolds, PTL

\* A process never stores a lower sequence of a lineage than it stored before
\* (SequenceNeverRegresses, atomic_fx_live._InMemorySeqSource).
THEOREM SequenceMonotone == Spec => []SequenceNeverRegresses
<1>1. IInv => SequenceNeverRegresses
  BY DEF IInv, Sequences
<1>. QED BY <1>1, InvariantHolds, PTL

-----------------------------------------------------------------------------
(* Refinement: the coordinator implements PublishOnce.                       *)

LEMMA KnownLemma == IInv => Known \in 0..MaxRev
<1>. SUFFICES ASSUME IInv PROVE Known \in 0..MaxRev
  OBVIOUS
<1>1. lock # None => call[lock].rev \in 0..MaxRev
  BY DEF IInv, TypeOK, Call
<1>2. /\ marker # None => marker.rev \in 0..MaxRev
      /\ wm # None => wm.rev \in 0..MaxRev
  BY DEF IInv, TypeOK, Watermark
<1>3. 0 \in 0..MaxRev
  BY BoundsAssumption
<1>. QED BY <1>1, <1>2, <1>3 DEF Known, InHand

\* A step that neither sends nor forgets.
LEMMA QuietLemma ==
    ASSUME UNCHANGED <<out, sends, faults>>, Known' = Known, Recording => Recording'
    PROVE  PO!RecordAgain \/ UNCHANGED PO!vars
<1>1. Recording \in BOOLEAN /\ Recording' \in BOOLEAN
  BY DEF Recording
<1>2. CASE Recording' = TRUE
  BY <1>2 DEF PO!RecordAgain
<1>3. CASE Recording' = FALSE
  BY <1>1, <1>3 DEF PO!vars
<1>. QED BY <1>1, <1>2, <1>3

\* Leaving the lock with nothing in hand forgets nothing.
LEMMA QuietLeave ==
    ASSUME IInv, NEW c \in Callers, lock = c, ~InHand, Leave(c),
           UNCHANGED <<wm, marker, lineage, out, sends, faults>>
    PROVE  PO!RecordAgain \/ UNCHANGED PO!vars
<1>1. ~InHand' /\ lock' = None
  BY DEF InHand, Leave
<1>2. Known' = Known
  BY <1>1 DEF Known
<1>3. Recording => Recording'
  BY <1>1 DEF Recording, Foreign
<1>. QED BY <1>2, <1>3, QuietLemma

\* So does a step inside the lock before the send.
LEMMA QuietStay ==
    ASSUME IInv, NEW c \in Callers, lock = c, UNCHANGED lock, ~InHand, ~InHand',
           call'[c].real = call[c].real, call'[c].current \in {call[c].current, wm},
           UNCHANGED <<wm, marker, lineage, out, sends, faults>>
    PROVE  PO!RecordAgain \/ UNCHANGED PO!vars
<1>1. Known' = Known
  BY DEF Known
<1>2. Recording => Recording'
  BY NoneAssumption DEF Recording, Foreign
<1>. QED BY <1>1, <1>2, QuietLemma

LEMMA EnterRefines == ASSUME IInv, NEW c \in Callers, Enter(c)
                      PROVE  UNCHANGED PO!vars
<1>1. lock # c /\ lock' = lock
  BY DEF Enter, IInv, Locked, Inside
<1>2. lock # None => call'[lock] = call[lock]
  BY <1>1 DEF Enter, To, IInv, TypeOK
<1>. QED
  BY <1>1, <1>2 DEF Enter, world, history, PO!vars, Known, InHand, Recording, Foreign

LEMMA AcquireRefines == ASSUME IInv, NEW c \in Callers, Acquire(c)
                        PROVE  PO!RecordAgain \/ UNCHANGED PO!vars
<1>1. lock = None /\ call[c].current = None /\ call[c].real = None
  BY NoneAssumption DEF Acquire, LockFree, IInv, Locked, Outside
<1>2. UNCHANGED <<wm, marker, lineage, out, sends, faults>>
  BY DEF Acquire, world, history
<1>3. lock' = None \/ /\ lock' = c
                      /\ call'[c].at \in {"recovering", "reading"}
                      /\ call'[c].current = None /\ call'[c].real = None
  BY <1>1 DEF Acquire, Leave, To, IInv, TypeOK, Call
<1>4. ~InHand /\ ~InHand'
  BY <1>1, <1>3 DEF InHand
<1>5. Known' = Known
  BY <1>2, <1>4 DEF Known
<1>6. Recording => Recording'
  BY <1>1, <1>2, <1>3, NoneAssumption DEF Recording, Foreign
<1>. QED BY <1>2, <1>5, <1>6, QuietLemma

LEMMA ReadRefines == ASSUME IInv, NEW c \in Callers, ReadWatermark(c) \/ Build(c)
                     PROVE  PO!RecordAgain \/ UNCHANGED PO!vars
<1>1. lock = c /\ call[c] \in Call
  BY HolderLemma DEF ReadWatermark, Build
<1>2. ~InHand /\ UNCHANGED <<wm, marker, lineage, out, sends, faults>>
  BY <1>1 DEF InHand, ReadWatermark, Build, world, history
<1>3. CASE Leave(c)
  BY <1>1, <1>2, <1>3, QuietLeave
<1>4. CASE ~Leave(c)
  <2>1. /\ lock' = lock
        /\ call'[c].at \in {"building", "sending"}
        /\ call'[c].real = call[c].real
        /\ call'[c].current \in {call[c].current, wm}
    BY <1>1, <1>4 DEF ReadWatermark, Build, IInv, TypeOK, Call
  <2>2. ~InHand'
    BY <1>1, <2>1 DEF InHand
  <2>. QED BY <1>1, <1>2, <2>1, <2>2, QuietStay
<1>. QED BY <1>3, <1>4

\* What is sent is newer than what is known; it is known then, or the watermark
\* read was foreign and nothing will be recorded.
LEMMA SendRefines == ASSUME IInv, NEW c \in Callers, Send(c)
                     PROVE  PO!Next \/ UNCHANGED PO!vars
<1>1. lock = c /\ Inside(c) /\ call[c] \in Call
  BY HolderLemma DEF Send
<1>2. ~InHand /\ UNCHANGED <<wm, marker, lineage, faults>>
  BY <1>1 DEF InHand, Send, world
<1>3. CASE Leave(c) /\ UNCHANGED <<out, sends>>
  BY <1>1, <1>2, <1>3, QuietLeave DEF PO!Next
<1>4. CASE /\ out' = call[c].rev /\ sends' = sends + 1
           /\ To(c, "sent") /\ UNCHANGED lock
  <2>1. /\ call'[c].at = "sent" /\ call'[c].rev = call[c].rev
        /\ call'[c].real = call[c].real /\ call'[c].current = call[c].current
    BY <1>1, <1>4 DEF To, IInv, TypeOK, Call
  <2>2. Known = (IF wm # None THEN wm.rev ELSE 0)
    BY <1>1, <1>2 DEF Known, Inside, MarkerPart, Send
  <2>3. out' \in 0..MaxRev /\ out' > Known
    BY <1>1, <1>4, <2>2 DEF Inside, ReadPart, RevPart, Send, Call
  <2>4. Recording' = Recording
    BY <1>1, <1>2, <1>4, <2>1 DEF Recording, Foreign
  <2>5. CASE ~Foreign(call[c].current)
    <3>1. InHand'
      BY <1>1, <1>2, <1>4, <2>1, <2>5, NoneAssumption DEF InHand, Foreign
    <3>2. Known' = out'
      BY <1>1, <1>4, <2>1, <3>1 DEF Known
    <3>. QED BY <1>2, <1>4, <2>3, <2>4, <3>2 DEF PO!Next, PO!Deliver, PO!Content
  <2>6. CASE Foreign(call[c].current)
    <3>1. ~InHand'
      BY <1>1, <1>2, <1>4, <2>1, <2>6 DEF InHand, Foreign
    <3>2. Known' = Known
      BY <1>2, <3>1 DEF Known
    <3>3. ~Recording
      BY <1>1, <2>6, NoneAssumption DEF Recording
    <3>. QED
      BY <1>2, <1>4, <2>3, <2>4, <3>2, <3>3 DEF PO!Next, PO!DeliverUnrecorded, PO!Content
  <2>. QED BY <2>5, <2>6
<1>. QED BY <1>3, <1>4 DEF Send

LEMMA CommitRefines == ASSUME IInv, NEW c \in Callers, Commit(c)
                       PROVE  PO!RecordAgain \/ UNCHANGED PO!vars
<1>. DEFINE current == call[c].current
            real == [lin |-> lineage, seq |-> Assigned(current), rev |-> call[c].rev]
<1>1. lock = c /\ Inside(c) /\ call[c] \in Call
  BY HolderLemma DEF Commit
<1>2. /\ current \in Watermark \cup {None} /\ call[c].rev \in 1..MaxRev
      /\ UNCHANGED <<wm, marker, lineage, out, sends, faults>>
  BY <1>1 DEF Call, Inside, RevPart, Commit, world, history
<1>3. real \in Watermark
  BY <1>2, AssignedLemma DEF Commit, Watermark, IInv, TypeOK
<1>4. Writes(current, real) <=> ~Foreign(current)
  <2>1. current # None /\ current.lin = lineage => current.seq < real.seq
    BY <1>2, AssignedLemma DEF Watermark
  <2>2. real.lin = lineage
    OBVIOUS
  <2>. HIDE DEF current, real
  <2>. QED BY <1>2, <1>3, <2>1, <2>2, WritesLemma DEF Foreign
<1>5. CASE ~Writes(current, real)
  <2>1. ~InHand
    BY <1>1, <1>4, <1>5 DEF InHand, Commit
  <2>2. Leave(c)
    BY <1>5 DEF Commit
  <2>. QED BY <1>1, <1>2, <2>1, <2>2, QuietLeave
<1>6. CASE Writes(current, real)
  <2>1. /\ lock' = c
        /\ call'[c].at = "writing" /\ call'[c].real = real
        /\ call'[c].rev = call[c].rev /\ call'[c].current = current
    BY <1>1, <1>6 DEF Commit, IInv, TypeOK, Call
  <2>2. InHand /\ InHand'
    BY <1>1, <1>4, <1>6, <2>1, NoneAssumption DEF InHand, Commit
  <2>3. Known' = Known
    BY <1>1, <2>1, <2>2 DEF Known
  <2>4. Recording => Recording'
    BY <1>1, <1>2, <1>4, <1>6, <2>1 DEF Recording, Foreign
  <2>. QED BY <1>2, <2>3, <2>4, QuietLemma
<1>. QED BY <1>5, <1>6

\* The revision in hand goes to the watermark, to the marker, or to both.
LEMMA WriteRefines == ASSUME IInv, NEW c \in Callers, WriteWatermark(c)
                      PROVE  PO!RecordAgain \/ UNCHANGED PO!vars
<1>. DEFINE real == call[c].real
<1>1. lock = c /\ Inside(c) /\ call[c].at = "writing"
  BY HolderLemma DEF WriteWatermark
<1>2. InHand /\ marker = None /\ real # None /\ real.rev = call[c].rev
  BY <1>1, NoneAssumption DEF InHand, Inside, RealPart, MarkerPart
<1>3. /\ UNCHANGED <<lineage, out, sends, faults>> /\ lock' = None
      /\ \/ wm' = real /\ marker' \in {None, real}
         \/ wm' = wm /\ marker' = real
  BY <1>2 DEF WriteWatermark, Kept, Leave, world
<1>4. Known' = Known
  BY <1>1, <1>2, <1>3 DEF Known, InHand
<1>5. Recording => Recording'
  BY <1>1, <1>3, NoneAssumption DEF Recording, Foreign
<1>. QED BY <1>3, <1>4, <1>5, QuietLemma

\* A marker is dropped only for the watermark it stands for.
LEMMA RecoverRefines == ASSUME IInv, NEW c \in Callers, RecoverRead(c) \/ RecoverWrite(c)
                        PROVE  PO!RecordAgain \/ UNCHANGED PO!vars
<1>1. lock = c /\ marker # None /\ ~InHand
  BY HolderLemma DEF RecoverRead, RecoverWrite, Inside, MarkerPart, InHand
<1>2. marker \in Watermark /\ wm \in Watermark \cup {None}
  BY <1>1 DEF IInv, TypeOK
<1>3. UNCHANGED <<lineage, out, sends, faults>>
  BY DEF RecoverRead, RecoverWrite, world, history
<1>4. lock' = None \/ /\ lock' = c /\ call'[c].at = "rewriting"
                      /\ call'[c].current = call[c].current
                      /\ call'[c].real = call[c].real
  BY <1>1 DEF RecoverRead, RecoverWrite, Leave, To, IInv, TypeOK, Call
<1>5. ~InHand'
  BY <1>4 DEF InHand
<1>6. \/ UNCHANGED <<wm, marker>>
      \/ wm' = marker /\ marker' \in {None, marker}
  <2>1. ~Writes(wm, marker) => wm = marker
    BY <1>1, <1>2, WritesLemma DEF IInv, MarkerNeverOutrun
  <2>. QED BY <2>1 DEF RecoverRead, RecoverWrite
<1>7. Known' = Known
  BY <1>1, <1>5, <1>6 DEF Known
<1>8. Recording => Recording'
  BY <1>1, <1>3, <1>4, <1>6, NoneAssumption DEF Recording, Foreign
<1>. QED BY <1>3, <1>7, <1>8, QuietLemma

LEMMA SurroundingsRefine ==
    ASSUME Known' \in 0..MaxRev, Tick \/ MoveGate \/ Takeover \/ Evict \/ Restart
    PROVE  PO!Fault \/ UNCHANGED PO!vars
<1>1. CASE Tick \/ MoveGate
  BY <1>1 DEF Tick, MoveGate, process, history, PO!vars, Known, InHand, Recording, Foreign
<1>2. CASE Takeover \/ Evict \/ Restart
  <2>1. Recording' \in BOOLEAN
    BY DEF Recording
  <2>. QED
    BY <1>2, <2>1
    DEF Takeover, Evict, Restart, Faulty, history, PO!Fault, PO!Content
<1>. QED BY <1>1, <1>2

\* Whatever crashes, fails, is evicted or taken over, between two such faults every
\* content is delivered at most once and never after a newer one, unless a foreign
\* watermark keeps the coordinator from recording (PublishesOnce): each step of a
\* publication is a delivery of the abstract publisher or invisible to it.
THEOREM CoordinatorPublishesOnce == Spec => PublishesOnce
<1>1. Init => PO!Init
  BY NoneAssumption DEF Init, PO!Init, Known, InHand, Recording, Foreign
<1>2. IInv => Known \in 0..MaxRev
  BY KnownLemma
<1>3. IInv /\ (Known \in 0..MaxRev)' /\ [Next]_vars => [PO!Next]_PO!vars
  <2>. SUFFICES ASSUME IInv, (Known \in 0..MaxRev)', [Next]_vars
                PROVE  PO!Next \/ UNCHANGED PO!vars
    OBVIOUS
  <2>1. ASSUME NEW c \in Callers, Publish(c) PROVE PO!Next \/ UNCHANGED PO!vars
    BY <2>1, EnterRefines, AcquireRefines, ReadRefines, SendRefines, CommitRefines,
       WriteRefines, RecoverRefines DEF Publish, PO!Next
  <2>2. CASE UNCHANGED vars
    BY <2>2 DEF vars, world, process, history, PO!vars, Known, InHand, Recording, Foreign
  <2>. QED BY <2>1, <2>2, SurroundingsRefine DEF Next, PO!Next
<1>. QED BY <1>1, <1>2, <1>3, InvariantHolds, PTL DEF Spec, PublishesOnce, PO!Spec
================================================================================
