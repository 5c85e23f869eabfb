--------------------------- MODULE TopicTriggerProofs ---------------------------
(***************************************************************************)
(* Proofs about TopicTrigger for any number of topics, writers and rates.   *)
(*                                                                          *)
(* An FX topic never has two flushes, because a new one is made only when   *)
(* the entry has no task (FxTasks); the payloads of a topic therefore       *)
(* follow each other.  The barrier is the last callback of the loop's queue *)
(* (ReadySound), so that when it runs no request can come any more, and the *)
(* tasks that close() collects are all there are.                           *)
(***************************************************************************)
EXTENDS TopicTrigger, FiniteSetTheorems, SequenceTheorems, TLAPS

Early == {"serving", "draining", "drained"}
Late == {"fx_closed", "tether_closing", "tether_closed", "down"}

\* A number is given once.
Numbered == \A t \in Topic : \A k \in flush[t] : k.own <= requests[t]

\* A writer reports what it has stored, a feed nothing but its own topic.
Reported ==
    /\ \A w \in Worker \cup Feed : \A t \in DOMAIN writer[w] : writer[w][t] <= store[t]
    /\ \A f \in Feed : DOMAIN writer[f] \subseteq {Tether}
    /\ \A i \in 1..Len(ready) : \A t \in DOMAIN ready[i] : ready[i][t] <= store[t]
    /\ \A t \in Topic : asked[t] <= store[t]

\* Nothing is queued behind the barrier.
ReadySound ==
    /\ ready \in Seq(Report)
    /\ shutting <=> life # "serving"
    /\ life = "serving" => \A i \in 1..Len(ready) : ready[i] # Barrier
    /\ life = "draining" => /\ Len(ready) >= 1 /\ ready[Len(ready)] = Barrier
                            /\ \A i \in 1..(Len(ready) - 1) : ready[i] # Barrier
    /\ life \notin {"serving", "draining"} => ready = <<>>

Owned(t) == \A k \in flush[t] : k.own = pending[t]

\* The flush of an FX topic is the one of its entry.
FxTasks ==
    /\ \A t \in Fx : Owned(t)
    /\ life = "fx_closing" => \A t \in Fx : \A k \in flush[t] : IsWaited(t, k)
    /\ life \in Late => \A t \in Fx : flush[t] = {} /\ pending[t] = 0

\* So is that of usdt:krw, until its feeds outlive its controller.
EarlyTasks ==
    life \in Early => \A t \in Topic : Owned(t) /\ \A k \in flush[t] : ~k.cancelled

\* A payload on its way is no older than the one before it.
InOrder ==
    \A t \in Fx :
        /\ published[t] <= store[t]
        /\ \A k \in flush[t] : k.phase = "sending" =>
               published[t] <= k.read /\ k.read <= store[t]

IInv ==
    /\ TypeOK /\ Numbered /\ Reported /\ ReadySound /\ FxTasks /\ EarlyTasks
    /\ InOrder /\ RequestsConserved

-----------------------------------------------------------------------------
(* Lemmas on reports and tasks                                               *)

LEMMA ReportLemma ==
    /\ Nothing \in Report /\ DOMAIN Nothing = {}
    /\ \A r \in Report : DOMAIN r \in SUBSET Topic /\ \A t \in DOMAIN r : r[t] \in 0..MaxStored
    /\ \A ts \in SUBSET Topic : [ts -> 0..MaxStored] \subseteq Report
    /\ \A r \in Report : r # Nothing <=> DOMAIN r # {}
<1>1. Nothing \in [{} -> 0..MaxStored] /\ DOMAIN Nothing = {}
  BY DEF Nothing
<1>2. \A ts \in SUBSET Topic : [ts -> 0..MaxStored] \subseteq Report
  BY DEF Report
<1>3. ASSUME NEW r \in Report
      PROVE  DOMAIN r \in SUBSET Topic /\ \A t \in DOMAIN r : r[t] \in 0..MaxStored
  BY DEF Report
<1>4. ASSUME NEW r \in Report, DOMAIN r = {} PROVE r = Nothing
  <2>1. PICK ts \in SUBSET Topic : r \in [ts -> 0..MaxStored]
    BY DEF Report
  <2>2. r = [t \in {} |-> r[t]]
    BY <1>4, <2>1
  <2>. QED BY <2>2 DEF Nothing
<1>. QED BY <1>1, <1>2, <1>3, <1>4

LEMMA NumbersLemma ==
    ASSUME TypeOK
    PROVE  /\ pending \in [Topic -> Nat] /\ requests \in [Topic -> Nat]
           /\ coalesced \in [Topic -> Nat] /\ flushes \in [Topic -> Nat]
           /\ asked \in [Topic -> Nat] /\ seen \in [Topic -> Nat]
           /\ published \in [Topic -> Nat]
           /\ store \in [Topic -> 0..MaxStored] /\ \A t \in Topic : store[t] \in Nat
  BY BoundAssumption DEF TypeOK

LEMMA TasksLemma ==
    ASSUME TypeOK, NEW t \in Topic, NEW k \in flush[t]
    PROVE  /\ k \in Flush /\ k.own \in Nat /\ k.own # 0 /\ k.read \in Nat
           /\ k.cancelled \in BOOLEAN
           /\ k.phase \in {"window", "called", "sending"}
           /\ \A j \in flush[t] : j.own = k.own => j = k
  BY DEF TypeOK, Flush

LEMMA NewFlushLemma ==
    ASSUME TypeOK, NEW t \in Topic
    PROVE  /\ NewFlush(t) \in Flush /\ NewFlush(t).own = requests[t] + 1
           /\ NewFlush(t).phase = "window" /\ ~NewFlush(t).cancelled
  BY NumbersLemma DEF NewFlush, Flush

\* What a task becomes.
LEMMA CalledLemma ==
    ASSUME NEW k \in Flush, NEW e \in Nat, NEW d,
           d = [k EXCEPT !.phase = "called", !.entry = e]
    PROVE  /\ d \in Flush /\ d.own = k.own /\ d.phase = "called"
           /\ d.cancelled = k.cancelled
<1>1. [k EXCEPT !.phase = "called"] \in Flush
  BY DEF Flush
<1>2. d = [[k EXCEPT !.phase = "called"] EXCEPT !.entry = e]
  BY DEF Flush
<1>3. d \in Flush
  BY <1>1, <1>2 DEF Flush
<1>. QED BY <1>3 DEF Flush

LEMMA CancelledLemma ==
    ASSUME NEW k \in Flush, NEW d, d = [k EXCEPT !.cancelled = TRUE]
    PROVE  /\ d \in Flush /\ d.own = k.own /\ d.phase = k.phase /\ d.read = k.read
  BY DEF Flush

\* An owned topic has one task at most.
LEMMA OneTask ==
    ASSUME TypeOK, NEW t \in Topic, Owned(t), NEW k \in flush[t]
    PROVE  flush[t] = {k} /\ pending[t] # 0 /\ Coalesces(t)
  BY TasksLemma DEF Owned, Coalesces

LEMMA InitHolds == Init => IInv
<1>. SUFFICES ASSUME Init PROVE IInv
  OBVIOUS
<1>1. TypeOK
  <2>1. store \in [Topic -> 0..MaxStored]
    BY BoundAssumption DEF Init
  <2>2. \A c \in {pending, requests, coalesced, flushes, asked, seen, published} :
           c \in [Topic -> Nat]
    BY DEF Init
  <2>3. /\ DOMAIN writer = Worker \cup Feed
        /\ \A w \in Worker \cup Feed : writer[w] \in Report
    BY ReportLemma DEF Init
  <2>4. \A i \in DOMAIN ready : ready[i] \in Report
    BY DEF Init
  <2>5. DOMAIN flush = Topic /\ \A t \in Topic : flush[t] = {}
    BY DEF Init
  <2>6. shutting \in BOOLEAN /\ life \in Life /\ waited \subseteq Topic \X Nat
    BY DEF Init, Life
  <2>. QED BY <2>1, <2>2, <2>3, <2>4, <2>5, <2>6 DEF TypeOK
<1>2. Numbered /\ FxTasks /\ EarlyTasks /\ InOrder
  BY <1>1, TopicAssumption
  DEF Init, Numbered, FxTasks, EarlyTasks, InOrder, Owned, Late, Topic
<1>3. Reported
  BY <1>1, ReportLemma, EmptySeq DEF Init, Reported
<1>4. ReadySound
  BY EmptySeq DEF Init, ReadySound
<1>5. RequestsConserved
  <2>1. \A t \in Topic : Windows(t) = {}
    BY DEF Init, Windows
  <2>. QED BY <2>1, FS_EmptySet DEF Init, RequestsConserved
<1>. QED BY <1>1, <1>2, <1>3, <1>4, <1>5 DEF IInv

-----------------------------------------------------------------------------
(* Each part reads some of the variables only                                *)

\* What is said of the tasks, the entries and the counters.
Tasks == Numbered /\ FxTasks /\ EarlyTasks /\ RequestsConserved

LEMMA TasksFrame ==
    ASSUME Tasks, UNCHANGED <<flush, pending, requests, coalesced, flushes, life, waited>>
    PROVE  Tasks'
<1>1. Numbered'
  BY DEF Tasks, Numbered
<1>2. FxTasks' /\ EarlyTasks'
  BY DEF Tasks, FxTasks, EarlyTasks, Owned, IsWaited
<1>3. RequestsConserved'
  BY DEF Tasks, RequestsConserved, Windows
<1>. QED BY <1>1, <1>2, <1>3 DEF Tasks

LEMMA ReportedFrame ==
    Reported /\ UNCHANGED <<store, writer, ready, asked>> => Reported'
  BY DEF Reported

LEMMA ReadyFrame == ReadySound /\ UNCHANGED <<ready, shutting, life>> => ReadySound'
  BY DEF ReadySound

LEMMA InOrderFrame == InOrder /\ UNCHANGED <<store, flush, published>> => InOrder'
  BY DEF InOrder

-----------------------------------------------------------------------------
(* The writers                                                               *)

LEMMA StoresLemma ==
    ASSUME TypeOK, Reported, NEW w \in Worker \cup Feed, NEW ts \in SUBSET Topic,
           Stores(w, ts), w \in Feed => ts = {Tether}, UNCHANGED <<ready, asked>>
    PROVE  /\ store' \in [Topic -> 0..MaxStored]
           /\ DOMAIN writer' = Worker \cup Feed
           /\ \A v \in Worker \cup Feed : writer'[v] \in Report
           /\ \A t \in Topic : store[t] <= store'[t]
           /\ Reported'
<1>. DEFINE new == [t \in DOMAIN writer[w] \cup ts |->
                      IF t \in ts THEN store[t] + 1 ELSE writer[w][t]]
<1>1. store' = [t \in Topic |-> IF t \in ts THEN store[t] + 1 ELSE store[t]]
  BY DEF Stores
<1>2. writer' = [writer EXCEPT ![w] = new]
  BY DEF Stores
<1>3. /\ \A t \in Topic : store[t] \in Nat /\ store[t] \in 0..MaxStored
      /\ \A t \in ts : store[t] < MaxStored
      /\ writer[w] \in Report /\ DOMAIN writer[w] \in SUBSET Topic
      /\ \A t \in DOMAIN writer[w] : writer[w][t] \in 0..MaxStored
  BY ReportLemma, NumbersLemma DEF TypeOK, Stores
<1>4. store' \in [Topic -> 0..MaxStored] /\ \A t \in Topic : store[t] <= store'[t]
  BY <1>1, <1>3, BoundAssumption
<1>5. new \in [DOMAIN writer[w] \cup ts -> 0..MaxStored]
  BY <1>3, BoundAssumption
<1>6. new \in Report
  BY <1>3, <1>5, ReportLemma
<1>7. \A t \in DOMAIN new : new[t] <= store'[t]
  BY <1>1, <1>3 DEF Reported
<1>8. w \in Feed => DOMAIN new \subseteq {Tether}
  BY DEF Reported
<1>. HIDE DEF new
<1>9. /\ DOMAIN writer' = Worker \cup Feed /\ writer'[w] = new
      /\ \A v \in (Worker \cup Feed) \ {w} : writer'[v] = writer[v]
  BY <1>2 DEF TypeOK
<1>10. \A v \in Worker \cup Feed : writer'[v] \in Report
  BY <1>6, <1>9 DEF TypeOK
<1>11. \A v \in Worker \cup Feed : \A t \in DOMAIN writer'[v] : writer'[v][t] <= store'[t]
  <2>1. ASSUME NEW v \in (Worker \cup Feed) \ {w}, NEW t \in DOMAIN writer[v]
        PROVE  writer[v][t] <= store'[t]
    <3>1. t \in Topic /\ writer[v][t] \in 0..MaxStored /\ writer[v][t] <= store[t]
      BY ReportLemma DEF TypeOK, Reported
    <3>. QED BY <1>3, <1>4, <3>1
  <2>. QED BY <1>7, <1>9, <2>1
<1>12. \A f \in Feed : DOMAIN writer'[f] \subseteq {Tether}
  BY <1>8, <1>9 DEF Reported
<1>13. \A i \in 1..Len(ready) : \A t \in DOMAIN ready[i] : ready[i][t] <= store'[t]
  <2>1. ASSUME NEW i \in 1..Len(ready), NEW t \in DOMAIN ready[i], ready[i] \in Report
        PROVE  ready[i][t] <= store'[t]
    <3>1. t \in Topic /\ ready[i][t] \in 0..MaxStored /\ ready[i][t] <= store[t]
      BY <2>1, ReportLemma DEF Reported
    <3>. QED BY <1>3, <1>4, <3>1
  <2>. QED BY <2>1, <1>4 DEF TypeOK
<1>14. \A t \in Topic : asked[t] <= store'[t]
  BY <1>3, <1>4, NumbersLemma DEF Reported
<1>15. Reported'
  BY <1>11, <1>12, <1>13, <1>14 DEF Reported
<1>. QED BY <1>4, <1>9, <1>10, <1>15

LEMMA StoreStep ==
    ASSUME IInv, NEW w \in Worker \cup Feed, NEW ts \in SUBSET Topic, Stores(w, ts),
           w \in Feed => ts = {Tether},
           UNCHANGED <<ready, shutting, pending, flush, requests, coalesced, flushes,
                       asked, seen, published, life, waited>>
    PROVE  IInv'
<1>1. /\ store' \in [Topic -> 0..MaxStored]
      /\ DOMAIN writer' = Worker \cup Feed
      /\ \A v \in Worker \cup Feed : writer'[v] \in Report
      /\ \A t \in Topic : store[t] <= store'[t]
      /\ Reported'
  BY StoresLemma DEF IInv
<1>2. TypeOK'
  BY <1>1 DEF IInv, TypeOK
<1>3. InOrder'
  <2>1. \A t \in Fx : /\ t \in Topic /\ store[t] \in Nat /\ store'[t] \in Nat
                      /\ published[t] \in Nat /\ store[t] <= store'[t]
    BY <1>1, NumbersLemma, BoundAssumption DEF IInv, Topic
  <2>2. \A t \in Fx : \A k \in flush[t] : k.read \in Nat
    BY TasksLemma DEF IInv, Topic
  <2>. QED BY <2>1, <2>2 DEF IInv, InOrder
<1>. QED BY <1>1, <1>2, <1>3, TasksFrame, ReadyFrame DEF IInv, Tasks

LEMMA WorkerStoresStep ==
    ASSUME IInv, NEW w \in Worker, NEW t \in Fx, WorkerStores(w, t) PROVE IInv'
<1>1. PICK ts \in Routes(t) : Stores(w, ts)
  BY DEF WorkerStores
<1>2. ts \in SUBSET Topic
  BY DEF Routes, Topic
<1>3. w \notin Feed
  BY WriterAssumption
<1>. QED BY <1>1, <1>2, <1>3, StoreStep DEF WorkerStores

LEMMA FeedStoresStep == ASSUME IInv, NEW f \in Feed, FeedStores(f) PROVE IInv'
<1>1. {Tether} \in SUBSET Topic
  BY DEF Topic
<1>. QED BY <1>1, StoreStep DEF FeedStores

\* A report enters the queue only while no barrier is in it.
LEMMA EmitsStep == ASSUME IInv, NEW w \in Worker, Emits(w) PROVE IInv'
<1>. USE DEF Emits
<1>1. /\ writer[w] \in Report /\ writer[w] # Barrier
      /\ \A t \in DOMAIN writer[w] : writer[w][t] <= store[t]
  BY DEF IInv, TypeOK, Reported, Barrier
<1>2. /\ DOMAIN writer' = Worker \cup Feed /\ writer'[w] = Nothing
      /\ \A v \in (Worker \cup Feed) \ {w} : writer'[v] = writer[v]
  BY DEF IInv, TypeOK
<1>3. /\ \A v \in Worker \cup Feed : writer'[v] \in Report
      /\ \A v \in Worker \cup Feed : \A t \in DOMAIN writer'[v] : writer'[v][t] <= store[t]
      /\ \A f \in Feed : DOMAIN writer'[f] \subseteq {Tether}
  BY <1>2, ReportLemma DEF IInv, TypeOK, Reported
<1>4. CASE shutting
  <2>1. TypeOK' /\ Reported'
    BY <1>2, <1>3, <1>4 DEF IInv, TypeOK, Reported
  <2>. QED BY <1>4, <2>1, TasksFrame, ReadyFrame, InOrderFrame DEF IInv, Tasks
<1>5. CASE ~shutting
  <2>1. /\ ready' \in Seq(Report) /\ Len(ready') = Len(ready) + 1 /\ Len(ready) \in Nat
        /\ \A i \in 1..Len(ready) : ready'[i] = ready[i]
        /\ ready'[Len(ready) + 1] = writer[w]
    BY <1>1, <1>5, AppendProperties, LenProperties DEF IInv, ReadySound
  <2>2. \A i \in DOMAIN ready' : ready'[i] \in Report
    BY <2>1, LenProperties, ElementOfSeq
  <2>3. TypeOK'
    BY <1>2, <1>3, <2>2 DEF IInv, TypeOK
  <2>4. Reported'
    BY <1>1, <1>3, <2>1 DEF IInv, Reported
  <2>5. ReadySound'
    BY <1>1, <1>5, <2>1 DEF IInv, ReadySound
  <2>. QED BY <2>3, <2>4, <2>5, TasksFrame, InOrderFrame DEF IInv, Tasks
<1>. QED BY <1>4, <1>5

-----------------------------------------------------------------------------
(* The requests                                                              *)

LEMMA RequestedLemma ==
    ASSUME TypeOK, Numbered, NEW r \in Report, Requested(r), NEW t \in Topic
    PROVE  /\ requests'[t] \in Nat /\ coalesced'[t] \in Nat /\ pending'[t] \in Nat
           /\ asked'[t] = IF t \in DOMAIN r THEN Later(asked[t], r[t]) ELSE asked[t]
           /\ t \notin DOMAIN r =>
                 /\ flush'[t] = flush[t] /\ pending'[t] = pending[t]
                 /\ requests'[t] = requests[t] /\ coalesced'[t] = coalesced[t]
           /\ t \in DOMAIN r /\ Coalesces(t) =>
                 /\ flush'[t] = flush[t] /\ pending'[t] = pending[t]
                 /\ requests'[t] = requests[t] + 1 /\ coalesced'[t] = coalesced[t] + 1
           /\ t \in DOMAIN r /\ ~Coalesces(t) =>
                 /\ flush'[t] = flush[t] \cup {NewFlush(t)}
                 /\ pending'[t] = NewFlush(t).own
                 /\ requests'[t] = requests[t] + 1 /\ coalesced'[t] = coalesced[t]
           /\ \A k \in flush'[t] : k \in Flush /\ k.own <= requests'[t]
           /\ \A j, k \in flush'[t] : j.own = k.own => j = k
<1>1. /\ requests[t] \in Nat /\ coalesced[t] \in Nat /\ pending[t] \in Nat
      /\ NewFlush(t) \in Flush /\ NewFlush(t).own = requests[t] + 1
  BY NumbersLemma, NewFlushLemma
<1>2. DOMAIN r \in SUBSET Topic
  BY ReportLemma
<1>. DEFINE fresh == {u \in DOMAIN r : ~Coalesces(u)}
<1>3. /\ requests' = [u \in Topic |-> requests[u] + IF u \in DOMAIN r THEN 1 ELSE 0]
      /\ coalesced' = [u \in Topic |-> coalesced[u] + IF u \in DOMAIN r \ fresh THEN 1 ELSE 0]
      /\ flush' = [u \in Topic |-> IF u \in fresh THEN flush[u] \cup {NewFlush(u)}
                                   ELSE flush[u]]
      /\ pending' = [u \in Topic |-> IF u \in fresh THEN NewFlush(u).own ELSE pending[u]]
      /\ asked' = [u \in Topic |-> IF u \in DOMAIN r THEN Later(asked[u], r[u]) ELSE asked[u]]
  BY DEF Requested
<1>4. t \in fresh <=> t \in DOMAIN r /\ ~Coalesces(t)
  OBVIOUS
<1>. HIDE DEF fresh
<1>5. /\ requests'[t] = requests[t] + (IF t \in DOMAIN r THEN 1 ELSE 0)
      /\ coalesced'[t] = coalesced[t] + (IF t \in DOMAIN r \ fresh THEN 1 ELSE 0)
      /\ flush'[t] = IF t \in fresh THEN flush[t] \cup {NewFlush(t)} ELSE flush[t]
      /\ pending'[t] = IF t \in fresh THEN NewFlush(t).own ELSE pending[t]
      /\ asked'[t] = IF t \in DOMAIN r THEN Later(asked[t], r[t]) ELSE asked[t]
  BY <1>3
<1>6. \A k \in flush[t] : k \in Flush /\ k.own \in Nat /\ k.own <= requests[t]
                          /\ \A j \in flush[t] : j.own = k.own => j = k
  BY TasksLemma DEF Numbered
<1>7. /\ \A k \in flush'[t] : k \in Flush /\ k.own <= requests'[t]
      /\ \A j, k \in flush'[t] : j.own = k.own => j = k
  BY <1>1, <1>4, <1>5, <1>6
<1>. QED BY <1>1, <1>4, <1>5, <1>7

\* A request for an FX topic comes while the FX controller is served.
LEMMA RequestStep ==
    ASSUME IInv, NEW r \in Report, Requested(r),
           \A t \in DOMAIN r : r[t] <= store[t],
           DOMAIN r \cap Fx # {} => life \in Early,
           UNCHANGED <<store, shutting, flushes, seen, published, life, waited>>
    PROVE  /\ requests' \in [Topic -> Nat] /\ coalesced' \in [Topic -> Nat]
           /\ pending' \in [Topic -> Nat] /\ asked' \in [Topic -> Nat]
           /\ DOMAIN flush' = Topic
           /\ \A t \in Topic : \A k \in flush'[t] :
                 k \in Flush /\ \A j \in flush'[t] : j.own = k.own => j = k
           /\ \A t \in Topic : asked'[t] <= store[t]
           /\ Tasks' /\ InOrder'
<1>1. TypeOK /\ Numbered /\ FxTasks /\ EarlyTasks /\ InOrder /\ RequestsConserved /\ Reported
  BY DEF IInv
<1>0. \A t \in DOMAIN r : r[t] \in Nat /\ r[t] <= store[t]
  <2>1. \A t \in DOMAIN r : r[t] \in 0..MaxStored
    BY ReportLemma
  <2>. QED BY <2>1, BoundAssumption
<1>2. /\ requests' \in [Topic -> Nat] /\ coalesced' \in [Topic -> Nat]
      /\ pending' \in [Topic -> Nat] /\ asked' \in [Topic -> Nat]
  <2>1. /\ \A t \in Topic : requests'[t] \in Nat /\ coalesced'[t] \in Nat
                            /\ pending'[t] \in Nat
        /\ \A t \in Topic : asked'[t] = IF t \in DOMAIN r THEN Later(asked[t], r[t])
                                        ELSE asked[t]
    BY <1>1, RequestedLemma
  <2>2. \A t \in Topic : asked'[t] \in Nat
    BY <1>0, <1>1, <2>1, NumbersLemma DEF Later
  <2>. QED BY <2>1, <2>2 DEF Requested
<1>3. /\ DOMAIN flush' = Topic
      /\ \A t \in Topic : \A k \in flush'[t] :
            k \in Flush /\ k.own <= requests'[t] /\ \A j \in flush'[t] : j.own = k.own => j = k
  BY <1>1, RequestedLemma DEF Requested
<1>4. \A t \in Topic : asked'[t] <= store[t]
  <2>1. \A t \in Topic : asked'[t] = IF t \in DOMAIN r THEN Later(asked[t], r[t])
                                    ELSE asked[t]
    BY <1>1, RequestedLemma
  <2>. QED BY <1>0, <1>1, <2>1 DEF Later, Reported
<1>5. ASSUME NEW t \in Topic, t \notin DOMAIN r
      PROVE  /\ flush'[t] = flush[t] /\ pending'[t] = pending[t]
             /\ requests'[t] = requests[t] /\ coalesced'[t] = coalesced[t]
  BY <1>1, <1>5, RequestedLemma
<1>6. ASSUME NEW t \in Topic, t \in DOMAIN r, Coalesces(t)
      PROVE  /\ flush'[t] = flush[t] /\ pending'[t] = pending[t]
             /\ requests'[t] = requests[t] + 1 /\ coalesced'[t] = coalesced[t] + 1
  BY <1>1, <1>6, RequestedLemma
<1>7. ASSUME NEW t \in Topic, t \in DOMAIN r, ~Coalesces(t), Owned(t)
      PROVE  /\ flush[t] = {} /\ flush'[t] = {NewFlush(t)}
             /\ pending'[t] = NewFlush(t).own
             /\ requests'[t] = requests[t] + 1 /\ coalesced'[t] = coalesced[t]
             /\ NewFlush(t).phase = "window" /\ ~NewFlush(t).cancelled
  BY <1>1, <1>7, RequestedLemma, OneTask, NewFlushLemma
<1>8. ASSUME NEW t \in Topic, Owned(t) PROVE Owned(t)'
  <2>1. CASE t \in DOMAIN r /\ ~Coalesces(t)
    BY <1>7, <1>8, <2>1 DEF Owned
  <2>2. CASE ~(t \in DOMAIN r /\ ~Coalesces(t))
    BY <1>5, <1>6, <1>8, <2>2 DEF Owned
  <2>. QED BY <2>1, <2>2
<1>9. Fx \subseteq Topic /\ Early \cap Late = {} /\ "fx_closing" \notin Early
  BY DEF Topic, Early, Late
<1>10. Numbered'
  BY <1>3 DEF Numbered
<1>11. FxTasks'
  <2>1. \A t \in Fx : Owned(t)'
    BY <1>1, <1>8, <1>9 DEF FxTasks
  <2>2. life \notin Early => \A t \in Fx : flush'[t] = flush[t] /\ pending'[t] = pending[t]
    BY <1>5, <1>9
  <2>. QED BY <1>1, <1>9, <2>1, <2>2 DEF FxTasks, IsWaited
<1>12. EarlyTasks'
  <2>. SUFFICES ASSUME life \in Early, NEW t \in Topic
                PROVE  Owned(t)' /\ \A k \in flush'[t] : ~k.cancelled
    BY DEF EarlyTasks
  <2>1. Owned(t) /\ \A k \in flush[t] : ~k.cancelled
    BY <1>1 DEF EarlyTasks
  <2>. QED BY <1>5, <1>6, <1>7, <1>8, <2>1
<1>13. RequestsConserved'
  <2>. SUFFICES ASSUME life \in Early, NEW t \in Topic
                PROVE  requests'[t] = coalesced'[t] + flushes[t] + Cardinality(Windows(t))'
    BY DEF RequestsConserved, Early
  <2>1. /\ requests[t] = coalesced[t] + flushes[t] + Cardinality(Windows(t))
        /\ Owned(t)
    BY <1>1 DEF RequestsConserved, EarlyTasks, Early
  <2>2. /\ requests[t] \in Nat /\ coalesced[t] \in Nat /\ flushes[t] \in Nat
    BY <1>1, NumbersLemma
  <2>3. CASE t \in DOMAIN r /\ ~Coalesces(t)
    <3>1. Windows(t) = {} /\ Windows(t)' = {NewFlush(t)}
      BY <1>7, <2>1, <2>3 DEF Windows
    <3>2. Cardinality(Windows(t)) = 0 /\ Cardinality(Windows(t))' = 1
      BY <3>1, FS_EmptySet, FS_Singleton
    <3>. QED BY <1>7, <2>1, <2>2, <2>3, <3>2
  <2>4. CASE ~(t \in DOMAIN r /\ ~Coalesces(t))
    <3>1. Windows(t)' = Windows(t)
      BY <1>5, <1>6, <2>4 DEF Windows
    <3>2. Windows(t) = {} \/ \E k : Windows(t) = {k}
      BY <1>1, <2>1, OneTask DEF Windows
    <3>3. Cardinality(Windows(t)) \in Nat
      <4>1. CASE Windows(t) = {}
        BY <4>1, FS_EmptySet
      <4>2. ASSUME NEW k, Windows(t) = {k} PROVE Cardinality(Windows(t)) = 1
        BY <4>2, FS_Singleton
      <4>. QED BY <3>2, <4>1, <4>2
    <3>. QED BY <1>5, <1>6, <2>1, <2>2, <2>4, <3>1, <3>3
  <2>. QED BY <2>3, <2>4
<1>14. InOrder'
  <2>. SUFFICES ASSUME NEW t \in Fx, NEW k \in flush'[t], k.phase = "sending"
                PROVE  k \in flush[t]
    BY <1>1 DEF InOrder
  <2>1. t \in Topic /\ Owned(t)
    BY <1>1, <1>9 DEF FxTasks
  <2>. QED BY <1>5, <1>6, <1>7, <2>1
<1>. QED BY <1>2, <1>3, <1>4, <1>10, <1>11, <1>12, <1>13, <1>14 DEF Tasks

LEMMA RunsCallbackStep == IInv /\ RunsCallback => IInv'
<1>. SUFFICES ASSUME IInv, RunsCallback PROVE IInv'
  OBVIOUS
<1>1. TypeOK /\ Reported /\ ReadySound /\ ready \in Seq(Report) /\ ready # <<>>
  BY DEF IInv, ReadySound, RunsCallback
<1>2. /\ Len(ready) \in Nat /\ Len(ready) >= 1
      /\ \A i \in 1..Len(ready) : ready[i] \in Report
  BY <1>1, LenProperties, ElementOfSeq, EmptySeq
<1>3. /\ ready' \in Seq(Report) /\ Len(ready') = Len(ready) - 1
      /\ \A i \in 1..Len(ready') : ready'[i] = ready[i + 1]
      /\ Head(ready) = ready[1]
  BY <1>1, HeadTailProperties DEF RunsCallback
<1>4. PICK r \in Report : r = Head(ready)
  BY <1>2, <1>3
<1>5. /\ Requested(r) /\ r # Barrier /\ \A t \in DOMAIN r : r[t] <= store[t]
  BY <1>1, <1>2, <1>3, <1>4 DEF RunsCallback, Reported
<1>6. life \in {"serving", "draining"}
  BY <1>1 DEF ReadySound
<1>7. UNCHANGED <<store, writer, shutting, flushes, seen, published, life, waited>>
  BY DEF RunsCallback
<1>8. /\ requests' \in [Topic -> Nat] /\ coalesced' \in [Topic -> Nat]
      /\ pending' \in [Topic -> Nat] /\ asked' \in [Topic -> Nat]
      /\ DOMAIN flush' = Topic
      /\ \A t \in Topic : \A k \in flush'[t] :
            k \in Flush /\ \A j \in flush'[t] : j.own = k.own => j = k
      /\ \A t \in Topic : asked'[t] <= store[t]
      /\ Tasks' /\ InOrder'
  BY <1>5, <1>6, <1>7, RequestStep DEF Early
<1>9. \A i \in DOMAIN ready' : ready'[i] \in Report
  BY <1>3, LenProperties, ElementOfSeq
<1>10. TypeOK'
  BY <1>1, <1>7, <1>8, <1>9 DEF TypeOK
<1>11. Reported'
  <2>1. \A i \in 1..Len(ready') : \A t \in DOMAIN ready'[i] : ready'[i][t] <= store[t]
    <3>1. \A i \in 1..Len(ready') : i + 1 \in 1..Len(ready) /\ ready'[i] = ready[i + 1]
      BY <1>2, <1>3
    <3>. QED BY <1>1, <3>1 DEF Reported
  <2>. QED BY <1>1, <1>7, <1>8, <2>1 DEF Reported
<1>12. ReadySound'
  BY <1>1, <1>2, <1>3, <1>4, <1>5, <1>6, <1>7 DEF ReadySound
<1>. QED BY <1>8, <1>10, <1>11, <1>12 DEF IInv, Tasks

\* A feed requests usdt:krw alone, at any time before it is stopped.
LEMMA FeedRequestsStep == ASSUME IInv, NEW f \in Feed, FeedRequests(f) PROVE IInv'
<1>1. TypeOK /\ Reported /\ ReadySound
  BY DEF IInv
<1>2. PICK r \in Report : r = writer[f]
  BY <1>1 DEF TypeOK
<1>3. /\ Requested(r) /\ \A t \in DOMAIN r : r[t] <= store[t]
      /\ DOMAIN r \cap Fx = {}
  BY <1>1, <1>2, TopicAssumption DEF FeedRequests, Reported
<1>4. UNCHANGED <<store, ready, shutting, flushes, seen, published, life, waited>>
  BY DEF FeedRequests
<1>5. /\ requests' \in [Topic -> Nat] /\ coalesced' \in [Topic -> Nat]
      /\ pending' \in [Topic -> Nat] /\ asked' \in [Topic -> Nat]
      /\ DOMAIN flush' = Topic
      /\ \A t \in Topic : \A k \in flush'[t] :
            k \in Flush /\ \A j \in flush'[t] : j.own = k.own => j = k
      /\ \A t \in Topic : asked'[t] <= store[t]
      /\ Tasks' /\ InOrder'
  BY <1>3, <1>4, RequestStep
<1>6. /\ DOMAIN writer' = Worker \cup Feed /\ writer'[f] = Nothing
      /\ \A v \in (Worker \cup Feed) \ {f} : writer'[v] = writer[v]
  BY <1>1 DEF FeedRequests, TypeOK
<1>7. /\ \A v \in Worker \cup Feed : writer'[v] \in Report
      /\ \A v \in Worker \cup Feed : \A t \in DOMAIN writer'[v] : writer'[v][t] <= store[t]
      /\ \A v \in Feed : DOMAIN writer'[v] \subseteq {Tether}
  BY <1>1, <1>6, ReportLemma DEF TypeOK, Reported
<1>8. TypeOK'
  BY <1>1, <1>4, <1>5, <1>6, <1>7 DEF TypeOK
<1>9. Reported'
  BY <1>1, <1>4, <1>5, <1>7 DEF Reported
<1>. QED BY <1>1, <1>4, <1>5, <1>8, <1>9, ReadyFrame DEF IInv, Tasks

-----------------------------------------------------------------------------
(* The tasks                                                                 *)

\* A task moves on: its entry and its topic stay its own.
LEMMA MovesOn ==
    ASSUME IInv, NEW t \in Topic, NEW k \in flush[t], NEW d \in Flush,
           Becomes(t, k, {d}), d.own = k.own, d.cancelled = k.cancelled,
           UNCHANGED <<pending, requests, life, waited>>
    PROVE  /\ DOMAIN flush' = Topic
           /\ \A u \in Topic : \A j \in flush'[u] :
                 j \in Flush /\ \A i \in flush'[u] : i.own = j.own => i = j
           /\ Numbered' /\ FxTasks' /\ EarlyTasks'
           /\ \A u \in Topic \ {t} : flush'[u] = flush[u]
           /\ flush'[t] = (flush[t] \ {k}) \cup {d}
<1>. USE DEF IInv
<1>1. /\ DOMAIN flush' = Topic /\ \A u \in Topic \ {t} : flush'[u] = flush[u]
      /\ flush'[t] = (flush[t] \ {k}) \cup {d}
  BY DEF Becomes, TypeOK
<1>2. /\ \A j \in flush[t] : j \in Flush /\ (j.own = k.own => j = k)
      /\ \A i, j \in flush[t] : i.own = j.own => i = j
  BY DEF TypeOK
<1>3. \A j \in flush'[t] : j \in Flush /\ \A i \in flush'[t] : i.own = j.own => i = j
  BY <1>1, <1>2
<1>4. \A u \in Topic : \A j \in flush'[u] :
         j \in Flush /\ \A i \in flush'[u] : i.own = j.own => i = j
  BY <1>1, <1>3 DEF TypeOK
<1>5. Numbered'
  BY <1>1 DEF Numbered
<1>6. \A u \in Topic : Owned(u) => Owned(u)'
  BY <1>1 DEF Owned
<1>7. Fx \subseteq Topic
  BY DEF Topic
<1>8. \A u \in Topic : (\A j \in flush[u] : IsWaited(u, j))
                          => (\A j \in flush'[u] : IsWaited(u, j)')
  BY <1>1 DEF IsWaited
<1>9. FxTasks'
  BY <1>1, <1>6, <1>7, <1>8 DEF FxTasks
<1>10. EarlyTasks'
  BY <1>1, <1>6 DEF EarlyTasks
<1>. QED BY <1>1, <1>4, <1>5, <1>9, <1>10

\* A task ends: with an owned topic it leaves none.
LEMMA Ends ==
    ASSUME IInv, NEW t \in Topic, NEW k \in flush[t], Becomes(t, k, {}),
           pending' \in [Topic -> Nat],
           \A u \in Topic \ {t} : pending'[u] = pending[u],
           UNCHANGED <<requests, life, waited>>
    PROVE  /\ DOMAIN flush' = Topic
           /\ \A u \in Topic : \A j \in flush'[u] :
                 j \in Flush /\ \A i \in flush'[u] : i.own = j.own => i = j
           /\ Numbered' /\ FxTasks' /\ EarlyTasks'
           /\ \A u \in Topic \ {t} : flush'[u] = flush[u]
           /\ flush'[t] = flush[t] \ {k}
           /\ Owned(t) => flush'[t] = {}
<1>. USE DEF IInv
<1>1. /\ DOMAIN flush' = Topic /\ \A u \in Topic \ {t} : flush'[u] = flush[u]
      /\ flush'[t] = flush[t] \ {k}
  BY DEF Becomes, TypeOK
<1>2. Owned(t) => flush'[t] = {}
  BY <1>1, OneTask
<1>3. \A u \in Topic : \A j \in flush'[u] :
         j \in Flush /\ \A i \in flush'[u] : i.own = j.own => i = j
  BY <1>1 DEF TypeOK
<1>4. Numbered'
  BY <1>1 DEF Numbered
<1>5. \A u \in Topic : Owned(u) => Owned(u)'
  BY <1>1, <1>2 DEF Owned
<1>6. Fx \subseteq Topic /\ (life \in Late => t \notin Fx)
  BY DEF Topic, FxTasks
<1>7. FxTasks'
  BY <1>1, <1>5, <1>6 DEF FxTasks, IsWaited
<1>8. EarlyTasks'
  BY <1>1, <1>5 DEF EarlyTasks
<1>. QED BY <1>1, <1>2, <1>3, <1>4, <1>7, <1>8

\* What is not a window leaves the account of the requests alone.
LEMMA WindowsFrame ==
    ASSUME RequestsConserved, UNCHANGED <<requests, coalesced, flushes, life>>,
           \A t \in Topic : Windows(t)' = Windows(t)
    PROVE  RequestsConserved'
  BY DEF RequestsConserved

LEMMA WakesStep ==
    ASSUME IInv, NEW t \in Topic, NEW k \in flush[t], Wakes(t, k) PROVE IInv'
<1>1. /\ TypeOK /\ FxTasks /\ EarlyTasks /\ RequestsConserved /\ InOrder
      /\ k \in Flush /\ k.own # 0 /\ k.own \in Nat /\ k.phase = "window"
  BY TasksLemma DEF IInv, Wakes
<1>2. UNCHANGED <<store, writer, ready, shutting, pending, requests, coalesced,
                  asked, seen, published, life, waited>>
  BY DEF Wakes
<1>3. Reported' /\ ReadySound'
  BY <1>2, ReportedFrame, ReadyFrame DEF IInv
<1>4. CASE pending[t] = 0
  <2>1. Becomes(t, k, {}) /\ flushes' = flushes
    BY <1>4 DEF Wakes
  <2>2. ~Owned(t)
    BY <1>1, <1>4 DEF Owned
  <2>3. t \notin Fx /\ life \notin Early
    BY <1>1, <2>2 DEF FxTasks, EarlyTasks
  <2>4. pending' \in [Topic -> Nat] /\ \A u \in Topic \ {t} : pending'[u] = pending[u]
    BY <1>1, <1>2, NumbersLemma
  <2>5. /\ DOMAIN flush' = Topic
        /\ \A u \in Topic : \A j \in flush'[u] :
              j \in Flush /\ \A i \in flush'[u] : i.own = j.own => i = j
        /\ Numbered' /\ FxTasks' /\ EarlyTasks'
        /\ \A u \in Topic \ {t} : flush'[u] = flush[u]
    BY <1>2, <2>1, <2>4, Ends
  <2>6. TypeOK'
    BY <1>1, <1>2, <2>1, <2>5 DEF TypeOK
  <2>7. RequestsConserved'
    BY <1>2, <2>3 DEF RequestsConserved, Early
  <2>8. InOrder'
    BY <1>1, <1>2, <2>3, <2>5 DEF InOrder, Topic
  <2>. QED BY <1>3, <2>5, <2>6, <2>7, <2>8 DEF IInv
<1>5. CASE pending[t] # 0
  <2>1. PICK d : d = [k EXCEPT !.phase = "called", !.entry = pending[t]]
    OBVIOUS
  <2>2. Becomes(t, k, {d}) /\ flushes' = [flushes EXCEPT ![t] = @ + 1]
    BY <1>5, <2>1 DEF Wakes
  <2>3. /\ pending[t] \in Nat /\ flushes \in [Topic -> Nat]
        /\ \A u \in Topic : requests[u] \in Nat /\ coalesced[u] \in Nat
    BY <1>1, NumbersLemma
  <2>4. d \in Flush /\ d.own = k.own /\ d.phase = "called" /\ d.cancelled = k.cancelled
    <3>1. k \in Flush /\ pending[t] \in Nat
      BY <1>1, <2>3
    <3>. QED BY <2>1, <3>1, CalledLemma
  <2>5. /\ DOMAIN flush' = Topic
        /\ \A u \in Topic : \A j \in flush'[u] :
              j \in Flush /\ \A i \in flush'[u] : i.own = j.own => i = j
        /\ Numbered' /\ FxTasks' /\ EarlyTasks'
        /\ \A u \in Topic \ {t} : flush'[u] = flush[u]
        /\ flush'[t] = (flush[t] \ {k}) \cup {d}
    BY <1>2, <2>2, <2>4, MovesOn
  <2>6. /\ flushes' \in [Topic -> Nat] /\ flushes'[t] = flushes[t] + 1
        /\ \A u \in Topic \ {t} : flushes'[u] = flushes[u]
    BY <2>2, <2>3
  <2>7. TypeOK'
    BY <1>1, <1>2, <2>5, <2>6 DEF TypeOK
  <2>8. RequestsConserved'
    <3>. SUFFICES ASSUME life \in Early, NEW u \in Topic
                  PROVE  requests[u] = coalesced[u] + flushes'[u] + Cardinality(Windows(u))'
      BY <1>2 DEF RequestsConserved, Early
    <3>1. requests[u] = coalesced[u] + flushes[u] + Cardinality(Windows(u))
      BY <1>1 DEF RequestsConserved, Early
    <3>2. CASE u = t
      <4>1. flush[t] = {k} /\ flush'[t] = {d}
        BY <1>1, <2>5, OneTask DEF EarlyTasks
      <4>2. Windows(t) = {k} /\ Windows(t)' = {}
        BY <1>1, <2>4, <4>1 DEF Windows
      <4>3. Cardinality(Windows(t)) = 1 /\ Cardinality(Windows(t))' = 0
        BY <4>2, FS_EmptySet, FS_Singleton
      <4>. QED BY <2>3, <2>6, <3>1, <3>2, <4>3
    <3>3. CASE u # t
      <4>1. Windows(u)' = Windows(u)
        BY <2>5, <3>3 DEF Windows
      <4>. QED BY <2>6, <3>1, <3>3, <4>1
    <3>. QED BY <3>2, <3>3
  <2>9. InOrder'
    BY <1>1, <1>2, <2>4, <2>5 DEF InOrder, Topic
  <2>. QED BY <1>3, <2>5, <2>7, <2>8, <2>9 DEF IInv
<1>. QED BY <1>4, <1>5

LEMMA BuildsStep ==
    ASSUME IInv, NEW t \in Topic, NEW k \in flush[t], Builds(t, k) PROVE IInv'
<1>1. /\ TypeOK /\ RequestsConserved /\ InOrder /\ k \in Flush /\ k.phase = "called"
      /\ store[t] \in Nat /\ seen \in [Topic -> Nat] /\ \A u \in Topic : published[u] \in Nat
  BY TasksLemma, NumbersLemma DEF IInv, Builds
<1>2. UNCHANGED <<store, writer, ready, shutting, pending, requests, coalesced,
                  flushes, asked, published, life, waited>>
  BY DEF Builds
<1>3. PICK d : d = [k EXCEPT !.phase = "sending", !.read = store[t]]
  OBVIOUS
<1>4. Becomes(t, k, {d}) /\ seen' = [seen EXCEPT ![t] = Later(@, store[t])]
  BY <1>3 DEF Builds
<1>5. /\ d \in Flush /\ d.own = k.own /\ d.phase = "sending" /\ d.read = store[t]
      /\ d.cancelled = k.cancelled
  <2>1. k \in Flush /\ store[t] \in Nat
    BY <1>1
  <2>2. [k EXCEPT !.phase = "sending"] \in Flush
    BY <2>1 DEF Flush
  <2>3. d = [[k EXCEPT !.phase = "sending"] EXCEPT !.read = store[t]]
    BY <1>3, <2>1 DEF Flush
  <2>4. d \in Flush
    BY <2>1, <2>2, <2>3 DEF Flush
  <2>. QED BY <2>1, <2>3, <2>4 DEF Flush
<1>6. /\ DOMAIN flush' = Topic
      /\ \A u \in Topic : \A j \in flush'[u] :
            j \in Flush /\ \A i \in flush'[u] : i.own = j.own => i = j
      /\ Numbered' /\ FxTasks' /\ EarlyTasks'
      /\ \A u \in Topic \ {t} : flush'[u] = flush[u]
      /\ flush'[t] = (flush[t] \ {k}) \cup {d}
  BY <1>2, <1>4, <1>5, MovesOn
<1>7. seen' \in [Topic -> Nat]
  BY <1>1, <1>4 DEF Later
<1>8. TypeOK'
  BY <1>1, <1>2, <1>6, <1>7 DEF TypeOK
<1>9. RequestsConserved'
  <2>1. \A u \in Topic : Windows(u)' = Windows(u)
    BY <1>1, <1>5, <1>6 DEF Windows
  <2>. QED BY <1>1, <1>2, <2>1, WindowsFrame
<1>10. InOrder'
  BY <1>1, <1>2, <1>5, <1>6 DEF InOrder, Topic
<1>. QED BY <1>2, <1>6, <1>8, <1>9, <1>10, ReportedFrame, ReadyFrame DEF IInv

LEMMA TaskEndsLemma ==
    ASSUME IInv, NEW t \in Topic, NEW k \in flush[t], TaskEnds(t, k),
           UNCHANGED <<requests, coalesced, flushes, life, waited>>,
           k.phase # "window" \/ k.cancelled
    PROVE  /\ pending' \in [Topic -> Nat] /\ DOMAIN flush' = Topic
           /\ \A u \in Topic : \A j \in flush'[u] :
                 j \in Flush /\ \A i \in flush'[u] : i.own = j.own => i = j
           /\ Tasks'
           /\ \A u \in Topic \ {t} : flush'[u] = flush[u]
           /\ t \in Fx => flush'[t] = {}
<1>1. /\ pending \in [Topic -> Nat] /\ Becomes(t, k, {})
      /\ pending' = [pending EXCEPT ![t] = IF k.entry # 0 /\ @ = k.entry THEN 0 ELSE @]
  BY NumbersLemma DEF IInv, TaskEnds
<1>2. pending' \in [Topic -> Nat] /\ \A u \in Topic \ {t} : pending'[u] = pending[u]
  BY <1>1
<1>3. /\ DOMAIN flush' = Topic
      /\ \A u \in Topic : \A j \in flush'[u] :
            j \in Flush /\ \A i \in flush'[u] : i.own = j.own => i = j
      /\ Numbered' /\ FxTasks' /\ EarlyTasks'
      /\ \A u \in Topic \ {t} : flush'[u] = flush[u]
      /\ flush'[t] = flush[t] \ {k}
      /\ Owned(t) => flush'[t] = {}
  BY <1>1, <1>2, Ends
<1>4. t \in Fx => flush'[t] = {}
  BY <1>3 DEF IInv, FxTasks
<1>5. RequestsConserved'
  <2>1. CASE k.cancelled
    BY <2>1 DEF IInv, EarlyTasks, RequestsConserved, Early
  <2>2. CASE k.phase # "window"
    <3>1. \A u \in Topic : Windows(u)' = Windows(u)
      BY <1>3, <2>2 DEF Windows
    <3>. QED BY <3>1, WindowsFrame DEF IInv
  <2>. QED BY <2>1, <2>2
<1>. QED BY <1>2, <1>3, <1>4, <1>5 DEF Tasks

LEMMA TaskInOrder ==
    ASSUME IInv, NEW t \in Topic, \A u \in Topic \ {t} : flush'[u] = flush[u],
           t \in Fx => flush'[t] = {} /\ published'[t] <= store[t],
           \A u \in Topic \ {t} : published'[u] = published[u], UNCHANGED store
    PROVE  InOrder'
  BY DEF IInv, InOrder, Topic

LEMMA PublishSkipsStep ==
    ASSUME IInv, NEW t \in Topic, NEW k \in flush[t], PublishSkips(t, k) PROVE IInv'
<1>1. UNCHANGED <<store, writer, ready, shutting, requests, coalesced, flushes,
                  asked, published, life, waited>>
  BY DEF PublishSkips
<1>2. TaskEnds(t, k) /\ k.phase # "window"
  BY DEF PublishSkips
<1>3. /\ pending' \in [Topic -> Nat] /\ DOMAIN flush' = Topic
      /\ \A u \in Topic : \A j \in flush'[u] :
            j \in Flush /\ \A i \in flush'[u] : i.own = j.own => i = j
      /\ Tasks'
      /\ \A u \in Topic \ {t} : flush'[u] = flush[u]
      /\ t \in Fx => flush'[t] = {}
  BY <1>1, <1>2, TaskEndsLemma
<1>4. seen' \in [Topic -> Nat]
  BY NumbersLemma DEF IInv, PublishSkips, Later
<1>5. TypeOK'
  BY <1>1, <1>3, <1>4 DEF IInv, TypeOK
<1>6. InOrder'
  BY <1>1, <1>3, TaskInOrder DEF IInv, InOrder
<1>. QED BY <1>1, <1>3, <1>5, <1>6, ReportedFrame, ReadyFrame DEF IInv, Tasks

LEMMA PublishEndsStep ==
    ASSUME IInv, NEW t \in Topic, NEW k \in flush[t], PublishEnds(t, k) PROVE IInv'
<1>1. UNCHANGED <<store, writer, ready, shutting, requests, coalesced, flushes,
                  asked, seen, life, waited>>
  BY DEF PublishEnds
<1>2. TaskEnds(t, k) /\ k.phase = "sending"
  BY DEF PublishEnds
<1>3. /\ pending' \in [Topic -> Nat] /\ DOMAIN flush' = Topic
      /\ \A u \in Topic : \A j \in flush'[u] :
            j \in Flush /\ \A i \in flush'[u] : i.own = j.own => i = j
      /\ Tasks'
      /\ \A u \in Topic \ {t} : flush'[u] = flush[u]
      /\ t \in Fx => flush'[t] = {}
  BY <1>1, <1>2, TaskEndsLemma
<1>4. k.read \in Nat /\ published \in [Topic -> Nat]
  BY NumbersLemma, TasksLemma DEF IInv
<1>5. /\ published' \in [Topic -> Nat]
      /\ \A u \in Topic \ {t} : published'[u] = published[u]
      /\ published'[t] \in {published[t], k.read}
  BY <1>4 DEF PublishEnds
<1>6. TypeOK'
  BY <1>1, <1>3, <1>5 DEF IInv, TypeOK
<1>7. t \in Fx => published'[t] <= store[t]
  BY <1>2, <1>5 DEF IInv, InOrder
<1>8. InOrder'
  BY <1>1, <1>3, <1>5, <1>7, TaskInOrder
<1>. QED BY <1>1, <1>3, <1>6, <1>8, ReportedFrame, ReadyFrame DEF IInv, Tasks

LEMMA CancelLandsStep ==
    ASSUME IInv, NEW t \in Topic, NEW k \in flush[t], CancelLands(t, k) PROVE IInv'
<1>1. UNCHANGED <<store, writer, ready, shutting, requests, coalesced, flushes,
                  asked, seen, published, life, waited>>
  BY DEF CancelLands
<1>2. TaskEnds(t, k) /\ k.cancelled
  BY DEF CancelLands
<1>3. /\ pending' \in [Topic -> Nat] /\ DOMAIN flush' = Topic
      /\ \A u \in Topic : \A j \in flush'[u] :
            j \in Flush /\ \A i \in flush'[u] : i.own = j.own => i = j
      /\ Tasks'
      /\ \A u \in Topic \ {t} : flush'[u] = flush[u]
      /\ t \in Fx => flush'[t] = {}
  BY <1>1, <1>2, TaskEndsLemma
<1>4. TypeOK'
  BY <1>1, <1>3 DEF IInv, TypeOK
<1>5. InOrder'
  BY <1>1, <1>3, TaskInOrder DEF IInv, InOrder
<1>. QED BY <1>1, <1>3, <1>4, <1>5, ReportedFrame, ReadyFrame DEF IInv, Tasks

-----------------------------------------------------------------------------
(* The shutdown                                                              *)

LEMMA BeginsDrainStep == IInv /\ BeginsDrain => IInv'
<1>. SUFFICES ASSUME IInv, BeginsDrain PROVE IInv'
  OBVIOUS
<1>1. /\ life = "serving" /\ life' = "draining" /\ shutting' = TRUE
      /\ ready' = Append(ready, Barrier)
      /\ UNCHANGED <<store, writer, pending, flush, requests, coalesced, flushes,
                     asked, seen, published, waited>>
  BY DEF BeginsDrain
<1>2. /\ ready \in Seq(Report) /\ Barrier \in Report
      /\ \A i \in 1..Len(ready) : ready[i] # Barrier
  BY <1>1, ReportLemma DEF IInv, ReadySound, Barrier
<1>3. /\ ready' \in Seq(Report) /\ Len(ready') = Len(ready) + 1 /\ Len(ready) \in Nat
      /\ \A i \in 1..Len(ready) : ready'[i] = ready[i]
      /\ ready'[Len(ready) + 1] = Barrier
  BY <1>1, <1>2, AppendProperties, LenProperties
<1>4. \A i \in DOMAIN ready' : ready'[i] \in Report
  BY <1>3, LenProperties, ElementOfSeq
<1>5. TypeOK'
  BY <1>1, <1>4 DEF IInv, TypeOK, Life
<1>6. ReadySound'
  BY <1>1, <1>2, <1>3 DEF ReadySound
<1>7. Reported'
  <2>1. DOMAIN Barrier = {}
    BY ReportLemma DEF Barrier
  <2>. QED BY <1>1, <1>3, <2>1 DEF IInv, Reported
<1>8. FxTasks' /\ EarlyTasks' /\ Numbered' /\ InOrder'
  BY <1>1 DEF IInv, FxTasks, EarlyTasks, Numbered, InOrder, Owned, Early, Late
<1>9. RequestsConserved'
  BY <1>1 DEF IInv, RequestsConserved, Windows
<1>. QED BY <1>5, <1>6, <1>7, <1>8, <1>9 DEF IInv

\* The barrier was the last callback: none is left.
LEMMA RunsBarrierStep == IInv /\ RunsBarrier => IInv'
<1>. SUFFICES ASSUME IInv, RunsBarrier PROVE IInv'
  OBVIOUS
<1>1. /\ ready # <<>> /\ Head(ready) = Barrier /\ ready' = Tail(ready)
      /\ life' = "drained"
      /\ UNCHANGED <<store, writer, shutting, pending, flush, requests, coalesced,
                     flushes, asked, seen, published, waited>>
  BY DEF RunsBarrier
<1>2. ready \in Seq(Report) /\ Len(ready) \in Nat /\ Len(ready) >= 1
  BY <1>1, LenProperties, EmptySeq DEF IInv, ReadySound
<1>3. /\ Tail(ready) \in Seq(Report) /\ Len(Tail(ready)) = Len(ready) - 1
      /\ Head(ready) = ready[1]
  BY <1>1, <1>2, HeadTailProperties
<1>4. life = "draining" /\ Len(ready) = 1
  BY <1>1, <1>2, <1>3 DEF IInv, ReadySound
<1>5. ready' = <<>>
  BY <1>1, <1>3, <1>4, EmptySeq
<1>6. TypeOK'
  BY <1>1, <1>5 DEF IInv, TypeOK, Life
<1>7. ReadySound'
  BY <1>1, <1>4, <1>5, EmptySeq DEF IInv, ReadySound
<1>8. Reported'
  BY <1>1, <1>5, EmptySeq DEF IInv, Reported
<1>9. FxTasks' /\ EarlyTasks' /\ Numbered' /\ InOrder'
  BY <1>1, <1>4 DEF IInv, FxTasks, EarlyTasks, Numbered, InOrder, Owned, Early, Late
<1>10. RequestsConserved'
  BY <1>1, <1>4 DEF IInv, RequestsConserved, Windows
<1>. QED BY <1>6, <1>7, <1>8, <1>9, <1>10 DEF IInv

\* What close() finds in the entries is all there is.
LEMMA ClosesFx == IInv /\ Closes(Fx, "drained", "fx_closing", "fx_closed") => IInv'
<1>. DEFINE found == {<<t, pending[t]>> : t \in {u \in Fx : pending[u] # 0}}
<1>. SUFFICES ASSUME IInv, Closes(Fx, "drained", "fx_closing", "fx_closed") PROVE IInv'
  OBVIOUS
<1>1. /\ life = "drained" /\ life' = IF found = {} THEN "fx_closed" ELSE "fx_closing"
      /\ waited' = found
      /\ UNCHANGED <<store, writer, ready, shutting, pending, flush, requests,
                     coalesced, flushes, asked, seen, published>>
  BY DEF Closes
<1>2. life' \in {"fx_closed", "fx_closing"}
  BY <1>1
<1>3. \A t \in Fx : pending[t] # 0 => <<t, pending[t]>> \in found
  OBVIOUS
<1>4. found \subseteq Topic \X Nat
  BY NumbersLemma DEF IInv, Topic
<1>. HIDE DEF found
<1>5. \A t \in Fx : \A k \in flush[t] : k.own = pending[t] /\ pending[t] # 0
  BY TasksLemma DEF IInv, FxTasks, Owned, Topic
<1>6. \A t \in Fx : \A k \in flush[t] : IsWaited(t, k)'
  BY <1>1, <1>3, <1>5 DEF IsWaited
<1>7. life' = "fx_closed" => \A t \in Fx : pending[t] = 0 /\ flush[t] = {}
  BY <1>1, <1>3, <1>5
<1>8. TypeOK'
  BY <1>1, <1>2, <1>4 DEF IInv, TypeOK, Life
<1>9. ReadySound' /\ Reported'
  BY <1>1, <1>2 DEF IInv, ReadySound, Reported
<1>10. FxTasks'
  BY <1>1, <1>2, <1>6, <1>7 DEF IInv, FxTasks, Owned, Late
<1>11. EarlyTasks' /\ Numbered' /\ InOrder' /\ RequestsConserved'
  BY <1>1, <1>2 DEF IInv, EarlyTasks, Numbered, InOrder, RequestsConserved, Early
<1>. QED BY <1>8, <1>9, <1>10, <1>11 DEF IInv

LEMMA ClosesTether ==
    IInv /\ Closes({Tether}, "fx_closed", "tether_closing", "tether_closed") => IInv'
<1>. DEFINE found == {<<t, pending[t]>> : t \in {u \in {Tether} : pending[u] # 0}}
<1>. SUFFICES ASSUME IInv, Closes({Tether}, "fx_closed", "tether_closing", "tether_closed")
              PROVE  IInv'
  OBVIOUS
<1>1. /\ life = "fx_closed"
      /\ life' = IF found = {} THEN "tether_closed" ELSE "tether_closing"
      /\ waited' = found
      /\ UNCHANGED <<store, writer, ready, shutting, pending, flush, requests,
                     coalesced, flushes, asked, seen, published>>
  BY DEF Closes
<1>2. life' \in {"tether_closed", "tether_closing"}
  BY <1>1
<1>3. found \subseteq Topic \X Nat
  BY NumbersLemma DEF IInv, Topic
<1>. HIDE DEF found
<1>4. TypeOK'
  BY <1>1, <1>2, <1>3 DEF IInv, TypeOK, Life
<1>5. ReadySound' /\ Reported'
  BY <1>1, <1>2 DEF IInv, ReadySound, Reported
<1>6. FxTasks'
  BY <1>1, <1>2 DEF IInv, FxTasks, Owned, Late
<1>7. EarlyTasks' /\ Numbered' /\ InOrder' /\ RequestsConserved'
  BY <1>1, <1>2 DEF IInv, EarlyTasks, Numbered, InOrder, RequestsConserved, Early
<1>. QED BY <1>4, <1>5, <1>6, <1>7 DEF IInv

\* close() returns: the tasks it waited for were all of an FX topic's.
LEMMA ClosedFx == IInv /\ Closed(Fx, "fx_closing", "fx_closed") => IInv'
<1>. SUFFICES ASSUME IInv, Closed(Fx, "fx_closing", "fx_closed") PROVE IInv'
  OBVIOUS
<1>1. /\ life = "fx_closing" /\ life' = "fx_closed" /\ waited' = {}
      /\ \A t \in Fx : \A k \in flush[t] : ~IsWaited(t, k)
      /\ pending' = [t \in Topic |-> IF t \in Fx THEN 0 ELSE pending[t]]
      /\ UNCHANGED <<store, writer, ready, shutting, flush, requests, coalesced,
                     flushes, asked, seen, published>>
  BY DEF Closed
<1>2. pending' \in [Topic -> Nat] /\ \A t \in Fx : pending'[t] = 0
  BY <1>1, NumbersLemma DEF IInv, Topic
<1>3. \A t \in Fx : flush[t] = {}
  BY <1>1 DEF IInv, FxTasks
<1>4. TypeOK'
  BY <1>1, <1>2 DEF IInv, TypeOK, Life
<1>5. ReadySound' /\ Reported'
  BY <1>1 DEF IInv, ReadySound, Reported
<1>6. FxTasks'
  BY <1>1, <1>2, <1>3 DEF FxTasks, Owned
<1>7. EarlyTasks' /\ Numbered' /\ InOrder' /\ RequestsConserved'
  BY <1>1 DEF IInv, EarlyTasks, Numbered, InOrder, RequestsConserved, Early
<1>. QED BY <1>4, <1>5, <1>6, <1>7 DEF IInv

LEMMA ClosedTether ==
    IInv /\ Closed({Tether}, "tether_closing", "tether_closed") => IInv'
<1>. SUFFICES ASSUME IInv, Closed({Tether}, "tether_closing", "tether_closed") PROVE IInv'
  OBVIOUS
<1>1. /\ life = "tether_closing" /\ life' = "tether_closed" /\ waited' = {}
      /\ pending' = [t \in Topic |-> IF t \in {Tether} THEN 0 ELSE pending[t]]
      /\ UNCHANGED <<store, writer, ready, shutting, flush, requests, coalesced,
                     flushes, asked, seen, published>>
  BY DEF Closed
<1>2. pending' \in [Topic -> Nat] /\ \A t \in Fx : pending'[t] = pending[t]
  BY <1>1, NumbersLemma, TopicAssumption DEF IInv, Topic
<1>3. TypeOK'
  BY <1>1, <1>2 DEF IInv, TypeOK, Life
<1>4. ReadySound' /\ Reported'
  BY <1>1 DEF IInv, ReadySound, Reported
<1>5. FxTasks'
  BY <1>1, <1>2 DEF IInv, FxTasks, Owned, Late
<1>6. EarlyTasks' /\ Numbered' /\ InOrder' /\ RequestsConserved'
  BY <1>1 DEF IInv, EarlyTasks, Numbered, InOrder, RequestsConserved, Early
<1>. QED BY <1>3, <1>4, <1>5, <1>6 DEF IInv

LEMMA CloseTimesOutStep == IInv /\ CloseTimesOut => IInv'
<1>. DEFINE Cut(t, k) == IF IsWaited(t, k) THEN [k EXCEPT !.cancelled = TRUE] ELSE k
<1>. SUFFICES ASSUME IInv, CloseTimesOut PROVE IInv'
  OBVIOUS
<1>1. /\ life \in {"fx_closing", "tether_closing"}
      /\ flush' = [t \in Topic |-> {Cut(t, k) : k \in flush[t]}]
      /\ UNCHANGED <<store, writer, ready, shutting, pending, requests, coalesced,
                     flushes, asked, seen, published, life, waited>>
  BY DEF CloseTimesOut
<1>2. ASSUME NEW t \in Topic, NEW k \in flush[t]
      PROVE  /\ Cut(t, k) \in Flush /\ Cut(t, k).own = k.own
             /\ Cut(t, k).phase = k.phase /\ Cut(t, k).read = k.read
  <2>1. k \in Flush
    BY DEF IInv, TypeOK
  <2>. QED BY <2>1, CancelledLemma
<1>. HIDE DEF Cut
<1>3. ASSUME NEW t \in Topic, NEW d \in flush'[t]
      PROVE  \E k \in flush[t] : /\ d = Cut(t, k) /\ d \in Flush /\ d.own = k.own
                                 /\ d.phase = k.phase /\ d.read = k.read
  BY <1>1, <1>2
<1>4. DOMAIN flush' = Topic /\ \A t \in Topic : flush[t] = {} => flush'[t] = {}
  BY <1>1
<1>5. \A t \in Topic : \A d, e \in flush'[t] : d.own = e.own => d = e
  <2>. SUFFICES ASSUME NEW t \in Topic, NEW d \in flush'[t], NEW e \in flush'[t],
                       d.own = e.own
                PROVE  d = e
    OBVIOUS
  <2>1. PICK k \in flush[t] : d = Cut(t, k) /\ d.own = k.own
    BY <1>3
  <2>2. PICK j \in flush[t] : e = Cut(t, j) /\ e.own = j.own
    BY <1>3
  <2>3. k = j
    BY <2>1, <2>2 DEF IInv, TypeOK
  <2>. QED BY <2>1, <2>2, <2>3
<1>6. TypeOK'
  BY <1>1, <1>3, <1>4, <1>5 DEF IInv, TypeOK
<1>7. Reported' /\ ReadySound'
  BY <1>1, ReportedFrame, ReadyFrame DEF IInv
<1>8. Fx \subseteq Topic
  BY DEF Topic
<1>9. \A t \in Topic : Owned(t) => Owned(t)'
  BY <1>1, <1>3 DEF Owned
<1>10. \A t \in Topic : (\A k \in flush[t] : IsWaited(t, k))
                          => (\A k \in flush'[t] : IsWaited(t, k)')
  BY <1>1, <1>3 DEF IsWaited
<1>11. FxTasks'
  BY <1>1, <1>4, <1>8, <1>9, <1>10 DEF IInv, FxTasks
<1>12. Numbered'
  BY <1>1, <1>3 DEF IInv, Numbered
<1>13. EarlyTasks' /\ RequestsConserved'
  BY <1>1 DEF EarlyTasks, RequestsConserved, Early
<1>14. InOrder'
  BY <1>1, <1>3, <1>8 DEF IInv, InOrder
<1>. QED BY <1>6, <1>7, <1>11, <1>12, <1>13, <1>14 DEF IInv

LEMMA FeedsStopStep == IInv /\ FeedsStop => IInv'
<1>. SUFFICES ASSUME IInv, FeedsStop PROVE IInv'
  OBVIOUS
<1>1. /\ life = "tether_closed" /\ life' = "down"
      /\ UNCHANGED <<store, writer, ready, shutting, pending, flush, requests,
                     coalesced, flushes, asked, seen, published, waited>>
  BY DEF FeedsStop
<1>2. TypeOK'
  BY <1>1 DEF IInv, TypeOK, Life
<1>3. ReadySound' /\ Reported'
  BY <1>1 DEF IInv, ReadySound, Reported
<1>4. FxTasks'
  BY <1>1 DEF IInv, FxTasks, Owned, Late
<1>5. EarlyTasks' /\ Numbered' /\ InOrder' /\ RequestsConserved'
  BY <1>1 DEF IInv, EarlyTasks, Numbered, InOrder, RequestsConserved, Early
<1>. QED BY <1>2, <1>3, <1>4, <1>5 DEF IInv

LEMMA StutterStep == IInv /\ UNCHANGED vars => IInv'
<1>. SUFFICES ASSUME IInv, UNCHANGED vars PROVE IInv'
  OBVIOUS
<1>1. TypeOK'
  BY DEF IInv, TypeOK, vars
<1>. QED BY <1>1, ReportedFrame, ReadyFrame, InOrderFrame, TasksFrame DEF IInv, Tasks, vars

LEMMA InvariantHolds == Spec => []IInv
<1>1. IInv /\ [Next]_vars => IInv'
  <2>. SUFFICES ASSUME IInv, [Next]_vars PROVE IInv'
    OBVIOUS
  <2>1. CASE Write
    BY <2>1, EmitsStep, WorkerStoresStep, FeedStoresStep, FeedRequestsStep DEF Write
  <2>2. CASE RunsCallback
    BY <2>2, RunsCallbackStep
  <2>3. CASE FlushSteps
    BY <2>3, WakesStep, BuildsStep, PublishSkipsStep, PublishEndsStep, CancelLandsStep
    DEF FlushSteps
  <2>4. CASE BeginsDrain \/ RunsBarrier \/ FeedsStop
    BY <2>4, BeginsDrainStep, RunsBarrierStep, FeedsStopStep
  <2>5. CASE Shutdown
    BY <2>5, ClosesFx, ClosedFx, ClosesTether, ClosedTether, CloseTimesOutStep DEF Shutdown
  <2>6. CASE UNCHANGED vars
    BY <2>6, StutterStep
  <2>. QED BY <2>1, <2>2, <2>3, <2>4, <2>5, <2>6 DEF Next
<1>. QED BY <1>1, InitHolds, PTL DEF Spec

-----------------------------------------------------------------------------
(* Theorems                                                                  *)

\* No trigger is lost while the server runs: each accepted request was
\* coalesced, was flushed, or has its window open.
THEOREM RequestsAccounted == Spec => []Bookkeeping
<1>1. IInv => Bookkeeping
  BY DEF IInv, Bookkeeping
<1>. QED BY <1>1, InvariantHolds, PTL

\* Once the FX controller is closed nothing is left that would publish an FX
\* topic, whatever the crawler threads still write.
THEOREM Drained == Spec => []FxDrained
<1>1. IInv => FxDrained
  <2>1. IInv /\ life \in Late => ready = <<>> /\ \A t \in Fx : flush[t] = {} /\ pending[t] = 0
    BY DEF IInv, ReadySound, FxTasks, Late
  <2>. QED BY <2>1 DEF FxDrained, Late
<1>. QED BY <1>1, InvariantHolds, PTL

\* The payloads that the triggers publish for an FX topic never go back to an
\* older rate: no two flushes of the topic overlap.
THEOREM PublicationsInOrder == Spec => PublishedInOrder
<1>1. IInv /\ [Next]_vars => [\A t \in Fx : published'[t] >= published[t]]_published
  <2>. SUFFICES ASSUME IInv, Next, published' # published, NEW t \in Fx
                PROVE  published'[t] >= published[t]
    BY DEF vars
  <2>0. PICK u \in Topic : \E k \in flush[u] : PublishEnds(u, k)
    BY DEF Next, Write, FlushSteps, Shutdown, RunsCallback, BeginsDrain, RunsBarrier,
           FeedsStop, Emits, WorkerStores, FeedStores, FeedRequests, Wakes, Builds,
           PublishSkips, CancelLands, Closes, Closed, CloseTimesOut
  <2>1. PICK k \in flush[u] : PublishEnds(u, k)
    BY <2>0
  <2>2. published \in [Topic -> Nat] /\ k.read \in Nat /\ t \in Topic
    BY NumbersLemma, TasksLemma DEF IInv, Topic
  <2>3. published'[t] = published[t] \/ (u = t /\ published'[t] = k.read)
    <3>1. published' = published \/ published' = [published EXCEPT ![u] = k.read]
      BY <2>1 DEF PublishEnds
    <3>. QED BY <2>0, <2>2, <3>1
  <2>4. u = t => published[t] <= k.read
    BY <2>1 DEF IInv, InOrder, PublishEnds
  <2>. QED BY <2>2, <2>3, <2>4
<1>. QED BY <1>1, InvariantHolds, PTL DEF Spec, PublishedInOrder

\* The call that ends a window sees every rate that a request of its topic was
\* accepted for: what was coalesced into the window is in the payload.
THEOREM WindowCoversRequests == Spec => FlushCoversItsRequests
<1>1. IInv /\ [Next]_vars
         => [\A t \in Fx : seen'[t] # seen[t] => seen'[t] >= asked[t]]_seen
  <2>. SUFFICES ASSUME IInv, Next, seen' # seen, NEW t \in Fx, seen'[t] # seen[t]
                PROVE  seen'[t] >= asked[t]
    BY DEF vars
  <2>1. PICK u \in Topic : \E k \in flush[u] : Builds(u, k) \/ PublishSkips(u, k)
    BY DEF Next, Write, FlushSteps, Shutdown, RunsCallback, BeginsDrain, RunsBarrier,
           FeedsStop, Emits, WorkerStores, FeedStores, FeedRequests, Wakes,
           PublishEnds, CancelLands, Closes, Closed, CloseTimesOut
  <2>2. /\ seen \in [Topic -> Nat] /\ t \in Topic /\ asked[t] \in Nat
        /\ \A x \in Topic : store[x] \in Nat
    BY NumbersLemma DEF IInv, Topic
  <2>3. seen' = [seen EXCEPT ![u] = Later(@, store[u])]
    BY <2>1 DEF Builds, PublishSkips
  <2>4. seen'[t] = Later(seen[t], store[t])
    BY <2>2, <2>3
  <2>5. asked[t] <= store[t]
    BY <2>2 DEF IInv, Reported
  <2>. QED BY <2>2, <2>4, <2>5 DEF Later
<1>. QED BY <1>1, InvariantHolds, PTL DEF Spec, FlushCoversItsRequests
================================================================================
