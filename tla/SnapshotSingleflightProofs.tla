----------------------- MODULE SnapshotSingleflightProofs ----------------------
(***************************************************************************)
(* Proofs about SnapshotSingleflight for any number of callers, topics,     *)
(* flights and permits.                                                     *)
(*                                                                          *)
(* The counts (waiters of a flight, holders of a permit) follow the sets    *)
(* they count.  The freshness of what a caller gets rests on the key: a     *)
(* flight never reads less than the generation in its key, nor is it reused *)
(* while somebody waits for it.  The cache and the cooldown exclude each    *)
(* other because a build that may still arm a cooldown keeps its key out of *)
(* the cache (StillEmpty), which OneBuildPerKey and Undisturbed make true.  *)
(***************************************************************************)
EXTENDS SnapshotSingleflight, QueueLemmas, FiniteSetTheorems

\* A waiting caller has a flight, of the generation it asked for.
WaitersSound ==
    \A c \in Caller : caller[c].phase = "waiting" =>
        /\ caller[c].flight \in Flight
        /\ caller[c].floor = flight[caller[c].flight].key.gen

Counted == WaitersCounted /\ \A f \in Flight : IsFiniteSet(WaitersOf(f))

\* Who queues for admission waits for nothing else.
QueueSound ==
    /\ NoRepeats(queue)
    /\ \A f \in ToSet(queue) : flight[f].phase = "queued" /\ flight[f].cancel = "no"

\* The registry holds live flights only, each under its own key.
Registered ==
    \A k \in Key : flights[k] # NoFlight =>
        Live(flights[k]) /\ flight[flights[k]].key = k

Admission == IsFiniteSet(Holders) /\ PermitsConserved

\* The generation in a key was current when its build was asked for.
Reads ==
    \A f \in Flight :
        /\ Live(f) => gen[flight[f].key.topic] >= flight[f].key.gen
        /\ flight[f].read # NoRead => flight[f].read >= flight[f].key.gen

Entries == \A k \in Key : cache[k] # NoEntry => cache[k] >= k.gen

\* A build that may still fill the cache or arm a cooldown finds no entry.
StillEmpty ==
    \A f \in Flight :
        Live(f) /\ flight[f].cancel # "waiters" => cache[flight[f].key] = NoEntry

IInv ==
    /\ TypeOK /\ WaitersSound /\ Counted /\ QueueSound /\ Admission
    /\ Registered /\ OneBuildPerKey /\ Reads /\ Entries /\ StillEmpty
    /\ FreshSnapshot /\ CacheExcludesCooldown

-----------------------------------------------------------------------------
(* Lemmas on the sets that are counted                                       *)

LEMMA GenLemma ==
    /\ \A g \in Gen : g \in Nat /\ g # NoEntry /\ g # NoRead
    /\ 0 \in Gen
  BY PermitsAssumption, NoneAssumption DEF Gen

\* The flight of a live key, its counter and its waiters.
LEMMA CountLemma ==
    ASSUME Counted, NEW f \in Flight
    PROVE  /\ IsFiniteSet(WaitersOf(f)) /\ flight[f].waiters = Cardinality(WaitersOf(f))
           /\ flight[f].waiters \in Nat
           /\ flight[f].waiters = 0 <=> WaitersOf(f) = {}
           /\ \A c \in WaitersOf(f) : flight[f].waiters >= 1
           /\ Live(f) => (flight[f].cancel = "waiters" <=> WaitersOf(f) = {})
<1>1. IsFiniteSet(WaitersOf(f)) /\ flight[f].waiters = Cardinality(WaitersOf(f))
  BY DEF Counted, WaitersCounted
<1>2. Cardinality(WaitersOf(f)) \in Nat
  BY <1>1, FS_CardinalityType
<1>3. Cardinality(WaitersOf(f)) = 0 <=> WaitersOf(f) = {}
  BY <1>1, FS_EmptySet
<1>. QED BY <1>1, <1>2, <1>3 DEF Counted, WaitersCounted

\* Counters and cancellations that a step leaves alone.
LEMMA CountedKept ==
    ASSUME Counted,
           \A f \in Flight :
              /\ flight'[f].waiters = flight[f].waiters /\ WaitersOf(f)' = WaitersOf(f)
              /\ flight'[f].phase # "ended" => Live(f)
              /\ \/ flight'[f].cancel = flight[f].cancel
                 \/ flight'[f].cancel = "deadline" /\ flight[f].cancel = "no",
           \A f \in Flight : flight'[f].phase \in {"queued", "building", "ended"}
    PROVE  Counted'
  BY DEF Counted, WaitersCounted, Live

\* A caller joins the waiters of a flight, ...
LEMMA GainLemma ==
    ASSUME TypeOK, Counted, NEW c \in Caller, NEW f \in Flight,
           caller[c].phase # "waiting",
           caller'[c].phase = "waiting" /\ caller'[c].flight = f,
           \A d \in Caller \ {c} : caller'[d] = caller[d]
    PROVE  /\ WaitersOf(f)' = WaitersOf(f) \cup {c}
           /\ \A g \in Flight \ {f} : WaitersOf(g)' = WaitersOf(g)
           /\ IsFiniteSet(WaitersOf(f)') /\ WaitersOf(f)' # {}
           /\ Cardinality(WaitersOf(f)') = flight[f].waiters + 1
<1>1. /\ WaitersOf(f)' = WaitersOf(f) \cup {c}
      /\ \A g \in Flight \ {f} : WaitersOf(g)' = WaitersOf(g)
      /\ c \notin WaitersOf(f)
  BY DEF WaitersOf
<1>. QED BY <1>1, CountLemma, FS_AddElement

\* ... and leaves them.
LEMMA LossLemma ==
    ASSUME TypeOK, Counted, NEW c \in Caller, NEW f \in Flight,
           caller[c].phase = "waiting" /\ caller[c].flight = f,
           caller'[c].phase # "waiting",
           \A d \in Caller \ {c} : caller'[d] = caller[d]
    PROVE  /\ WaitersOf(f)' = WaitersOf(f) \ {c}
           /\ \A g \in Flight \ {f} : WaitersOf(g)' = WaitersOf(g)
           /\ IsFiniteSet(WaitersOf(f)')
           /\ Cardinality(WaitersOf(f)') = flight[f].waiters - 1
           /\ flight[f].waiters >= 1 /\ flight[f].waiters \in Nat
           /\ flight[f].waiters = 1 <=> WaitersOf(f)' = {}
<1>1. /\ WaitersOf(f)' = WaitersOf(f) \ {c}
      /\ \A g \in Flight \ {f} : WaitersOf(g)' = WaitersOf(g)
      /\ c \in WaitersOf(f)
  BY DEF WaitersOf
<1>2. IsFiniteSet(WaitersOf(f)') /\ Cardinality(WaitersOf(f)') = flight[f].waiters - 1
  BY <1>1, CountLemma, FS_RemoveElement
<1>3. Cardinality(WaitersOf(f)') = 0 <=> WaitersOf(f)' = {}
  BY <1>2, FS_EmptySet
<1>. QED BY <1>1, <1>2, <1>3, CountLemma

LEMMA AdmissionKept ==
    ASSUME Admission, free' = free, Holders' = Holders PROVE Admission'
  BY DEF Admission, PermitsConserved

-----------------------------------------------------------------------------
(* Initial states and steps that move one variable                           *)

LEMMA InitHolds == Init => IInv
<1>. SUFFICES ASSUME Init PROVE IInv
  OBVIOUS
<1>1. PICK k0 \in Key : flight = [f \in Flight |->
                       [key |-> k0, phase |-> "ended", cancel |-> "no",
                        read |-> NoRead, outcome |-> "none", waiters |-> 0]]
  BY DEF Init
<1>2. \A f \in Flight : /\ flight[f] \in FlightState /\ flight[f].phase = "ended"
                        /\ flight[f].waiters = 0 /\ flight[f].read = NoRead
  BY <1>1 DEF FlightState, Outcome
<1>3. queue \in Seq(Flight) /\ NoRepeats(queue) /\ ToSet(queue) = {}
  BY EmptySeq DEF Init, NoRepeats, ToSet
<1>4. TypeOK
  BY <1>1, <1>2, <1>3, GenLemma, PermitsAssumption DEF Init, TypeOK, CallerState
<1>5. WaitersSound /\ Entries /\ FreshSnapshot /\ CacheExcludesCooldown
  BY GenLemma DEF Init, WaitersSound, Entries, FreshSnapshot, CacheExcludesCooldown
<1>6. Counted
  <2>1. \A f \in Flight : WaitersOf(f) = {}
    BY DEF Init, WaitersOf
  <2>. QED BY <1>2, <2>1, FS_EmptySet DEF Counted, WaitersCounted, Live
<1>7. Admission
  <2>1. Holders = {}
    BY <1>2 DEF Holders
  <2>. QED BY <2>1, FS_EmptySet, PermitsAssumption DEF Init, Admission, PermitsConserved
<1>8. QueueSound /\ Registered /\ OneBuildPerKey /\ Reads /\ StillEmpty
  BY <1>2, <1>3 DEF Init, QueueSound, Registered, OneBuildPerKey, Reads, StillEmpty, Live
<1>. QED BY <1>4, <1>5, <1>6, <1>7, <1>8 DEF IInv

\* What depends on the flights and their waiters only.
FlightParts ==
    WaitersSound /\ Counted /\ QueueSound /\ Admission /\ Registered /\ OneBuildPerKey

LEMMA FlightFrame ==
    ASSUME FlightParts, UNCHANGED <<flights, flight, queue, free, caller>>
    PROVE  FlightParts'
<1>1. WaitersSound' /\ Counted'
  <2>1. \A f \in Flight : WaitersOf(f)' = WaitersOf(f) /\ (Live(f)' <=> Live(f))
    BY DEF WaitersOf, Live
  <2>2. Counted'
    BY <2>1 DEF FlightParts, Counted, WaitersCounted
  <2>3. WaitersSound'
    BY DEF FlightParts, WaitersSound
  <2>. QED BY <2>2, <2>3
<1>2. QueueSound' /\ Admission'
  BY DEF FlightParts, QueueSound, Admission, PermitsConserved, Holders
<1>3. Registered' /\ OneBuildPerKey'
  BY DEF FlightParts, Registered, OneBuildPerKey, Live
<1>. QED BY <1>1, <1>2, <1>3 DEF FlightParts

LEMMA PublishesStep == ASSUME IInv, NEW t \in Topic, Publishes(t) PROVE IInv'
<1>. USE DEF Publishes
<1>1. gen' \in [Topic -> Gen] /\ \A u \in Topic : gen'[u] >= gen[u]
  BY PermitsAssumption DEF IInv, TypeOK, Gen
<1>2. TypeOK'
  BY <1>1 DEF IInv, TypeOK
<1>3. Reads'
  <2>1. \A f \in Flight : /\ flight[f].key.topic \in Topic /\ flight[f].key.gen \in Nat
                          /\ gen[flight[f].key.topic] \in Nat
                          /\ gen'[flight[f].key.topic] \in Nat
    BY <1>1, GenLemma DEF IInv, TypeOK, FlightState, Key
  <2>. QED BY <1>1, <2>1 DEF IInv, Reads, Live
<1>. QED BY <1>2, <1>3, FlightFrame
     DEF IInv, FlightParts, Entries, StillEmpty, FreshSnapshot, CacheExcludesCooldown, Live

LEMMA CacheExpiresStep == ASSUME IInv, NEW k \in Key, CacheExpires(k) PROVE IInv'
<1>. USE DEF CacheExpires
<1>1. TypeOK'
  BY DEF IInv, TypeOK
<1>2. \A j \in Key : cache'[j] = cache[j] \/ cache'[j] = NoEntry
  BY DEF IInv, TypeOK
<1>3. Entries' /\ StillEmpty' /\ CacheExcludesCooldown'
  BY <1>2 DEF IInv, TypeOK, FlightState, Entries, StillEmpty, CacheExcludesCooldown, Live
<1>. QED BY <1>1, <1>3, FlightFrame DEF IInv, FlightParts, Reads, FreshSnapshot, Live

LEMMA CooldownExpiresStep == ASSUME IInv, NEW k \in Key, CooldownExpires(k) PROVE IInv'
<1>. USE DEF CooldownExpires
<1>1. TypeOK' /\ CacheExcludesCooldown'
  BY DEF IInv, TypeOK, CacheExcludesCooldown
<1>. QED BY <1>1, FlightFrame
     DEF IInv, FlightParts, Reads, Entries, StillEmpty, FreshSnapshot, Live

-----------------------------------------------------------------------------
(* The callers                                                               *)

LEMMA BuildKeyLemma ==
    ASSUME TypeOK, NEW t \in Topic
    PROVE  /\ BuildKey(t) \in Key /\ gen[t] \in Gen
           /\ BuildKey(t).gen = gen[t] /\ BuildKey(t).topic = t
  BY DEF TypeOK, BuildKey, Key

LEMMA AnsweredStep ==
    ASSUME IInv, NEW c \in Caller, NEW t \in Topic, CacheHit(c, t) \/ CoolingDown(c, t)
    PROVE  IInv'
<1>1. /\ UNCHANGED <<gen, flights, flight, queue, free, cache, cooldowns>>
      /\ caller[c].phase # "waiting"
      /\ \A d \in Caller \ {c} : caller'[d] = caller[d]
  BY DEF IInv, TypeOK, CacheHit, CoolingDown, Returned
<1>2. BuildKey(t) \in Key /\ BuildKey(t).gen = gen[t] /\ gen[t] \in Gen
  BY BuildKeyLemma DEF IInv
<1>3. /\ caller' \in [Caller -> CallerState] /\ caller'[c].phase = "returned"
      /\ caller'[c].got # NoRead => caller'[c].got >= caller'[c].floor
  <2>1. CASE CacheHit(c, t)
    BY <1>2, <2>1 DEF IInv, TypeOK, CallerState, CacheHit, Entries
  <2>2. CASE CoolingDown(c, t)
    BY <2>2 DEF IInv, TypeOK, CallerState, CoolingDown, Returned
  <2>. QED BY <2>1, <2>2
<1>4. \A f \in Flight : WaitersOf(f)' = WaitersOf(f)
  BY <1>1, <1>3 DEF WaitersOf
<1>5. Counted' /\ WaitersSound' /\ FreshSnapshot'
  BY <1>1, <1>3, <1>4
  DEF IInv, Counted, WaitersCounted, WaitersSound, FreshSnapshot, Live
<1>. QED BY <1>1, <1>3, <1>5
     DEF IInv, TypeOK, QueueSound, Admission, PermitsConserved, Holders, Registered,
         OneBuildPerKey, Reads, Entries, StillEmpty, CacheExcludesCooldown, Live

LEMMA JoinsStep == ASSUME IInv, NEW c \in Caller, NEW t \in Topic, Joins(c, t) PROVE IInv'
<1>1. PICK k \in Key : k = BuildKey(t) /\ k.gen = gen[t] /\ gen[t] \in Gen
  BY BuildKeyLemma DEF IInv
<1>2. PICK f \in Flight : /\ f = flights[k] /\ Live(f) /\ flight[f].cancel = "no"
  BY <1>1 DEF IInv, TypeOK, Joins, Joinable
<1>3. /\ caller[c].phase # "waiting"
      /\ flight' = [flight EXCEPT ![f].waiters = @ + 1]
      /\ caller' = [caller EXCEPT ![c] = [phase |-> "waiting", flight |-> f,
                                          floor |-> k.gen, got |-> NoRead]]
      /\ UNCHANGED <<gen, flights, queue, free, cache, cooldowns>>
      /\ flight[f].key = k
  BY <1>1, <1>2, NoneAssumption DEF IInv, Registered, Joins, MustBuild, Waiting
<1>4. /\ \A g \in Flight \ {f} : flight'[g] = flight[g]
      /\ flight'[f].waiters = flight[f].waiters + 1
      /\ flight'[f].key = flight[f].key /\ flight'[f].phase = flight[f].phase
      /\ flight'[f].cancel = flight[f].cancel /\ flight'[f].read = flight[f].read
      /\ flight' \in [Flight -> FlightState]
  <2>1. flight \in [Flight -> FlightState]
    BY DEF IInv, TypeOK
  <2>2. flight[f].waiters + 1 \in Nat
    BY <2>1 DEF FlightState
  <2>. QED BY <1>3, <2>1, <2>2 DEF FlightState
<1>5. /\ caller'[c].phase = "waiting" /\ caller'[c].flight = f
      /\ caller'[c].floor = k.gen /\ caller'[c].got = NoRead
      /\ \A d \in Caller \ {c} : caller'[d] = caller[d]
      /\ caller' \in [Caller -> CallerState]
  BY <1>1, <1>3 DEF IInv, TypeOK, CallerState
<1>6. TypeOK'
  BY <1>3, <1>4, <1>5 DEF IInv, TypeOK
<1>7. WaitersSound'
  BY <1>3, <1>4, <1>5 DEF IInv, WaitersSound
<1>8. Counted'
  <2>1. /\ \A g \in Flight \ {f} : WaitersOf(g)' = WaitersOf(g)
        /\ IsFiniteSet(WaitersOf(f)') /\ WaitersOf(f)' # {}
        /\ Cardinality(WaitersOf(f)') = flight[f].waiters + 1
    BY <1>3, <1>5, GainLemma DEF IInv
  <2>. QED BY <1>2, <1>4, <2>1 DEF IInv, Counted, WaitersCounted, Live
<1>9. Admission'
  <2>1. Holders' = Holders
    BY <1>4 DEF Holders
  <2>. QED BY <1>3, <2>1, AdmissionKept DEF IInv
<1>10. /\ QueueSound' /\ Registered' /\ OneBuildPerKey' /\ Reads' /\ StillEmpty'
       /\ Entries' /\ FreshSnapshot' /\ CacheExcludesCooldown'
  <2>1. \A g \in Flight :
           /\ flight'[g].key = flight[g].key /\ flight'[g].phase = flight[g].phase
           /\ flight'[g].cancel = flight[g].cancel /\ flight'[g].read = flight[g].read
    BY <1>4
  <2>2. ToSet(queue) \subseteq Flight
    BY ElementsLemma DEF IInv, TypeOK
  <2>3. \A j \in Key : flights[j] \in Flight \cup {NoFlight}
    BY DEF IInv, TypeOK
  <2>4. QueueSound' /\ Registered' /\ OneBuildPerKey' /\ Reads' /\ StillEmpty'
    BY <1>3, <2>1, <2>2, <2>3
    DEF IInv, QueueSound, Registered, OneBuildPerKey, Reads, StillEmpty, Live
  <2>5. Entries' /\ FreshSnapshot' /\ CacheExcludesCooldown'
    BY <1>3, <1>5 DEF IInv, Entries, FreshSnapshot, CacheExcludesCooldown
  <2>. QED BY <2>4, <2>5
<1>. QED BY <1>6, <1>7, <1>8, <1>9, <1>10 DEF IInv

LEMMA LeadsStep ==
    ASSUME IInv, NEW c \in Caller, NEW t \in Topic, NEW f \in Flight, Leads(c, t, f)
    PROVE  IInv'
<1>1. PICK k \in Key : /\ k = BuildKey(t) /\ k.gen = gen[t] /\ k.topic = t
                       /\ gen[t] \in Gen
  BY BuildKeyLemma DEF IInv
<1>2. /\ caller[c].phase # "waiting" /\ cache[k] = NoEntry /\ ~Joinable(k)
      /\ flight[f].phase = "ended" /\ flight[f].waiters = 0
      /\ flight' = [flight EXCEPT ![f] =
                       [key |-> k, phase |-> "queued", cancel |-> "no",
                        read |-> NoRead, outcome |-> "none", waiters |-> 1]]
      /\ flights' = [flights EXCEPT ![k] = f]
      /\ queue' = Append(queue, f)
      /\ caller' = [caller EXCEPT ![c] = [phase |-> "waiting", flight |-> f,
                                          floor |-> k.gen, got |-> NoRead]]
      /\ UNCHANGED <<gen, free, cache, cooldowns>>
  BY <1>1 DEF Leads, MustBuild, Waiting
<1>3. /\ \A g \in Flight \ {f} : flight'[g] = flight[g]
      /\ flight'[f].key = k /\ flight'[f].phase = "queued" /\ flight'[f].cancel = "no"
      /\ flight'[f].read = NoRead /\ flight'[f].waiters = 1
      /\ flight' \in [Flight -> FlightState]
  BY <1>2 DEF IInv, TypeOK, FlightState, Outcome
<1>4. /\ caller'[c].phase = "waiting" /\ caller'[c].flight = f
      /\ caller'[c].floor = k.gen /\ caller'[c].got = NoRead
      /\ \A d \in Caller \ {c} : caller'[d] = caller[d]
      /\ caller' \in [Caller -> CallerState]
  BY <1>1, <1>2 DEF IInv, TypeOK, CallerState
<1>5. f \notin ToSet(queue)
  BY <1>2 DEF IInv, QueueSound
<1>6. /\ queue' \in Seq(Flight) /\ NoRepeats(queue') /\ ToSet(queue') = ToSet(queue) \cup {f}
  BY <1>2, <1>5, AppendQueue DEF IInv, TypeOK, QueueSound
<1>7. TypeOK'
  BY <1>2, <1>3, <1>4, <1>6 DEF IInv, TypeOK
<1>8. WaitersOf(f) = {}
  BY <1>2, CountLemma DEF IInv
<1>9. WaitersSound'
  BY <1>2, <1>3, <1>4, <1>8 DEF IInv, WaitersSound, WaitersOf
<1>10. Counted'
  <2>1. /\ \A g \in Flight \ {f} : WaitersOf(g)' = WaitersOf(g)
        /\ IsFiniteSet(WaitersOf(f)') /\ WaitersOf(f)' # {}
        /\ Cardinality(WaitersOf(f)') = flight[f].waiters + 1
    BY <1>2, <1>4, GainLemma DEF IInv
  <2>. QED BY <1>2, <1>3, <2>1 DEF IInv, Counted, WaitersCounted, Live
<1>11. Admission'
  <2>1. Holders' = Holders
    BY <1>2, <1>3 DEF Holders
  <2>. QED BY <1>2, <2>1, AdmissionKept DEF IInv
<1>12. QueueSound'
  BY <1>3, <1>5, <1>6, ElementsLemma DEF IInv, TypeOK, QueueSound
<1>13. Registered'
  <2>1. flights'[k] = f /\ \A j \in Key \ {k} : flights'[j] = flights[j]
    BY <1>2 DEF IInv, TypeOK
  <2>2. \A j \in Key : flights[j] # f \/ flights[j] = NoFlight
    BY <1>2 DEF IInv, Registered, Live
  <2>3. \A j \in Key : flights[j] \in Flight \cup {NoFlight}
    BY DEF IInv, TypeOK
  <2>. QED BY <1>3, <2>1, <2>2, <2>3, NoneAssumption DEF IInv, Registered, Live
<1>14. OneBuildPerKey'
  <2>1. flights'[k] = f /\ \A j \in Key \ {k} : flights'[j] = flights[j]
    BY <1>2 DEF IInv, TypeOK
  <2>2. ASSUME NEW g \in Flight \ {f}, Live(g), flight[g].cancel = "no"
        PROVE  flights[flight[g].key] = g /\ flight[g].key \in Key \ {k}
    <3>1. flights[flight[g].key] = g /\ flight[g].key \in Key
      BY <2>2 DEF IInv, OneBuildPerKey, TypeOK, FlightState
    <3>2. flight[g].key # k
      BY <1>2, <2>2, <3>1, NoneAssumption DEF Joinable
    <3>. QED BY <3>1, <3>2
  <2>. QED BY <1>3, <2>1, <2>2 DEF OneBuildPerKey, Live
<1>15. Reads' /\ StillEmpty'
  <2>1. gen[t] \in Nat
    BY <1>1, GenLemma
  <2>2. Reads'
    BY <1>1, <1>2, <1>3, <2>1 DEF IInv, Reads, Live
  <2>3. StillEmpty'
    BY <1>2, <1>3 DEF IInv, StillEmpty, Live
  <2>. QED BY <2>2, <2>3
<1>16. Entries' /\ FreshSnapshot' /\ CacheExcludesCooldown'
  BY <1>2, <1>4 DEF IInv, Entries, FreshSnapshot, CacheExcludesCooldown
<1>. QED BY <1>7, <1>9, <1>10, <1>11, <1>12, <1>13, <1>14, <1>15, <1>16 DEF IInv

LEMMA ReturnedLemma ==
    ASSUME TypeOK, NEW c \in Caller, NEW r \in Gen \cup {NoRead}, Returned(c, r)
    PROVE  /\ caller'[c].phase = "returned" /\ caller'[c].floor = caller[c].floor
           /\ caller'[c].got = r
           /\ \A d \in Caller \ {c} : caller'[d] = caller[d]
           /\ caller' \in [Caller -> CallerState]
<1>1. caller \in [Caller -> CallerState] /\ r \in Gen \cup {NoRead}
  BY DEF TypeOK
<1>2. caller' = [caller EXCEPT ![c].phase = "returned", ![c].flight = NoFlight,
                              ![c].got = r]
  BY DEF Returned
<1>. QED BY <1>1, <1>2 DEF CallerState

\* A caller leaves flight f, and the flight may be asked to stop.
LEMMA WaiterLeaves ==
    ASSUME IInv, NEW c \in Caller, NEW f \in Flight, NEW r \in Gen \cup {NoRead},
           caller[c].phase = "waiting", caller[c].flight = f, Returned(c, r),
           r # NoRead => r >= caller[c].floor,
           flight' \in [Flight -> FlightState],
           \A g \in Flight \ {f} : flight'[g] = flight[g],
           flight'[f].waiters = flight[f].waiters - 1,
           flight'[f].key = flight[f].key, flight'[f].phase = flight[f].phase,
           flight'[f].read = flight[f].read,
           flight'[f].cancel = IF flight[f].waiters = 1 /\ Live(f)
                               THEN "waiters" ELSE flight[f].cancel,
           queue' = queue \/ queue' = RemoveFirst(queue, f),
           flight'[f].cancel # flight[f].cancel => queue' = RemoveFirst(queue, f),
           UNCHANGED <<gen, flights, free, cache, cooldowns>>
    PROVE  IInv'
<1>1. /\ caller'[c].phase = "returned" /\ caller'[c].floor = caller[c].floor
      /\ caller'[c].got = r
      /\ \A d \in Caller \ {c} : caller'[d] = caller[d]
      /\ caller' \in [Caller -> CallerState]
  BY ReturnedLemma DEF IInv
<1>2. /\ queue' \in Seq(Flight) /\ NoRepeats(queue') /\ ToSet(queue') \subseteq ToSet(queue)
      /\ flight'[f].cancel # flight[f].cancel => f \notin ToSet(queue')
      /\ ToSet(queue) \subseteq Flight
  BY RemoveFirstQueue, ElementsLemma DEF IInv, TypeOK, QueueSound
<1>3. TypeOK'
  BY <1>1, <1>2 DEF IInv, TypeOK
<1>4. WaitersSound'
  BY <1>1 DEF IInv, WaitersSound
<1>5. Counted'
  <2>1. /\ \A g \in Flight \ {f} : WaitersOf(g)' = WaitersOf(g)
        /\ IsFiniteSet(WaitersOf(f)')
        /\ Cardinality(WaitersOf(f)') = flight[f].waiters - 1
        /\ flight[f].waiters = 1 <=> WaitersOf(f)' = {}
    BY <1>1, LossLemma DEF IInv
  <2>2. c \in WaitersOf(f)
    BY DEF WaitersOf
  <2>3. Live(f) => flight[f].cancel # "waiters"
    BY <2>2, CountLemma DEF IInv
  <2>. QED BY <2>1, <2>3 DEF IInv, Counted, WaitersCounted, Live
<1>6. Admission'
  <2>1. Holders' = Holders
    BY DEF Holders
  <2>. QED BY <2>1, AdmissionKept DEF IInv
<1>7. QueueSound'
  BY <1>2 DEF IInv, QueueSound
<1>8. /\ \A g \in Flight : /\ flight'[g].key = flight[g].key
                           /\ flight'[g].phase = flight[g].phase
                           /\ flight'[g].read = flight[g].read
                           /\ flight'[g].cancel \in {flight[g].cancel, "waiters"}
      /\ \A j \in Key : flights[j] \in Flight \cup {NoFlight}
  BY DEF IInv, TypeOK
<1>9. Registered' /\ OneBuildPerKey'
  BY <1>8 DEF IInv, Registered, OneBuildPerKey, Live
<1>10. Reads' /\ StillEmpty'
  BY <1>8 DEF IInv, Reads, StillEmpty, Live
<1>11. Entries' /\ FreshSnapshot' /\ CacheExcludesCooldown'
  BY <1>1 DEF IInv, Entries, FreshSnapshot, CacheExcludesCooldown
<1>. QED BY <1>3, <1>4, <1>5, <1>6, <1>7, <1>9, <1>10, <1>11 DEF IInv

LEMMA GetsStep == ASSUME IInv, NEW c \in Caller, Gets(c) PROVE IInv'
<1>1. PICK f \in Flight : f = caller[c].flight /\ flight[f].phase = "ended"
                          /\ caller[c].phase = "waiting"
                          /\ caller[c].floor = flight[f].key.gen
  BY DEF IInv, WaitersSound, Gets
<1>2. PICK r \in Gen \cup {NoRead} : /\ Returned(c, r)
                                     /\ r # NoRead => r >= caller[c].floor
  BY <1>1 DEF IInv, TypeOK, FlightState, Reads, Gets
<1>3. /\ flight' = [flight EXCEPT ![f].waiters = @ - 1]
      /\ UNCHANGED <<gen, flights, queue, free, cache, cooldowns>>
  BY <1>1 DEF Gets
<1>4. flight[f].waiters - 1 \in Nat /\ flight \in [Flight -> FlightState]
  <2>1. c \in WaitersOf(f)
    BY <1>1 DEF WaitersOf
  <2>. QED BY <2>1, CountLemma DEF IInv, TypeOK
<1>5. /\ flight' \in [Flight -> FlightState]
      /\ \A g \in Flight \ {f} : flight'[g] = flight[g]
      /\ flight'[f].waiters = flight[f].waiters - 1
      /\ flight'[f].key = flight[f].key /\ flight'[f].phase = flight[f].phase
      /\ flight'[f].read = flight[f].read /\ flight'[f].cancel = flight[f].cancel
  BY <1>3, <1>4 DEF FlightState
<1>. QED BY <1>1, <1>2, <1>3, <1>5, WaiterLeaves DEF Live

LEMMA LeavesStep == ASSUME IInv, NEW c \in Caller, Leaves(c) PROVE IInv'
<1>1. PICK f \in Flight : f = caller[c].flight /\ caller[c].phase = "waiting"
  BY DEF IInv, WaitersSound, Leaves
<1>2. PICK last \in BOOLEAN : last <=> flight[f].waiters = 1 /\ Live(f)
  OBVIOUS
<1>3. /\ Returned(c, NoRead)
      /\ flight' = [flight EXCEPT ![f].waiters = @ - 1,
                                  ![f].cancel = IF last THEN "waiters" ELSE @]
      /\ queue' = IF last THEN RemoveFirst(queue, f) ELSE queue
      /\ UNCHANGED <<gen, flights, free, cache, cooldowns>>
  BY <1>1, <1>2 DEF Leaves
<1>4. flight[f].waiters - 1 \in Nat /\ flight \in [Flight -> FlightState]
  <2>1. c \in WaitersOf(f)
    BY <1>1 DEF WaitersOf
  <2>. QED BY <2>1, CountLemma DEF IInv, TypeOK
<1>5. /\ flight' \in [Flight -> FlightState]
      /\ \A g \in Flight \ {f} : flight'[g] = flight[g]
      /\ flight'[f].waiters = flight[f].waiters - 1
      /\ flight'[f].key = flight[f].key /\ flight'[f].phase = flight[f].phase
      /\ flight'[f].read = flight[f].read
      /\ flight'[f].cancel = IF last THEN "waiters" ELSE flight[f].cancel
  BY <1>3, <1>4 DEF FlightState
<1>6. flight'[f].cancel = IF flight[f].waiters = 1 /\ Live(f)
                          THEN "waiters" ELSE flight[f].cancel
  BY <1>2, <1>5
<1>7. /\ queue' = queue \/ queue' = RemoveFirst(queue, f)
      /\ flight'[f].cancel # flight[f].cancel => queue' = RemoveFirst(queue, f)
  BY <1>3, <1>5
<1>8. /\ NoRead \in Gen \cup {NoRead} /\ (NoRead # NoRead => NoRead >= caller[c].floor)
      /\ Returned(c, NoRead) /\ UNCHANGED <<gen, flights, free, cache, cooldowns>>
  BY <1>3
<1>9. /\ flight' \in [Flight -> FlightState]
      /\ \A g \in Flight \ {f} : flight'[g] = flight[g]
      /\ flight'[f].waiters = flight[f].waiters - 1
      /\ flight'[f].key = flight[f].key /\ flight'[f].phase = flight[f].phase
      /\ flight'[f].read = flight[f].read
  BY <1>5
<1>. QED BY <1>1, <1>6, <1>7, <1>8, <1>9, WaiterLeaves

-----------------------------------------------------------------------------
(* The shared task                                                           *)

LEMMA AdmittedStep == ASSUME IInv, NEW f \in Flight, Admitted(f) PROVE IInv'
<1>. USE DEF Admitted
<1>1. /\ queue' \in Seq(Flight) /\ NoRepeats(queue') /\ ToSet(queue') = ToSet(queue) \ {f}
      /\ f \in ToSet(queue) /\ ToSet(queue) \subseteq Flight
  BY TailQueue, ElementsLemma DEF IInv, TypeOK, QueueSound
<1>2. flight[f].phase = "queued" /\ flight[f].cancel = "no"
  BY <1>1 DEF IInv, QueueSound
<1>3. /\ flight' \in [Flight -> FlightState] /\ flight'[f].phase = "building"
      /\ \A g \in Flight : /\ g # f => flight'[g] = flight[g]
                           /\ flight'[g].key = flight[g].key
                           /\ flight'[g].read = flight[g].read
                           /\ flight'[g].cancel = flight[g].cancel
                           /\ flight'[g].waiters = flight[g].waiters
                           /\ Live(g)' <=> Live(g)
  BY <1>2 DEF IInv, TypeOK, FlightState, Live
<1>4. TypeOK'
  BY <1>1, <1>3 DEF IInv, TypeOK
<1>5. WaitersSound' /\ Counted'
  <2>1. \A g \in Flight : WaitersOf(g)' = WaitersOf(g)
    BY DEF WaitersOf
  <2>. QED BY <1>3, <2>1 DEF IInv, WaitersSound, Counted, WaitersCounted
<1>6. Admission'
  <2>1. Holders' = Holders \cup {f} /\ f \notin Holders
    BY <1>2, <1>3 DEF Holders
  <2>2. IsFiniteSet(Holders') /\ Cardinality(Holders') = Cardinality(Holders) + 1
    BY <2>1, FS_AddElement DEF IInv, Admission
  <2>3. Cardinality(Holders) \in Nat
    BY FS_CardinalityType DEF IInv, Admission
  <2>. QED BY <2>2, <2>3 DEF IInv, TypeOK, Admission, PermitsConserved
<1>7. QueueSound'
  BY <1>1, <1>3 DEF IInv, QueueSound
<1>8. Registered' /\ OneBuildPerKey'
  BY <1>3, NoneAssumption DEF IInv, TypeOK, Registered, OneBuildPerKey
<1>9. Reads' /\ StillEmpty'
  BY <1>3 DEF IInv, Reads, StillEmpty
<1>. QED BY <1>4, <1>5, <1>6, <1>7, <1>8, <1>9
     DEF IInv, Entries, FreshSnapshot, CacheExcludesCooldown

LEMMA WorkerReadsStep == ASSUME IInv, NEW f \in Flight, WorkerReads(f) PROVE IInv'
<1>. USE DEF WorkerReads
<1>1. /\ flight[f].key \in Key /\ gen[flight[f].key.topic] \in Gen
      /\ gen[flight[f].key.topic] >= flight[f].key.gen
  BY DEF IInv, TypeOK, FlightState, Key, Reads, Live
<1>2. /\ flight' \in [Flight -> FlightState] /\ flight'[f].read = gen[flight[f].key.topic]
      /\ \A g \in Flight : /\ g # f => flight'[g] = flight[g]
                           /\ flight'[g].key = flight[g].key
                           /\ flight'[g].phase = flight[g].phase
                           /\ flight'[g].cancel = flight[g].cancel
                           /\ flight'[g].waiters = flight[g].waiters
                           /\ Live(g)' <=> Live(g)
  BY <1>1 DEF IInv, TypeOK, FlightState, Live
<1>3. TypeOK'
  BY <1>2 DEF IInv, TypeOK
<1>4. WaitersSound' /\ Counted'
  <2>1. \A g \in Flight : WaitersOf(g)' = WaitersOf(g)
    BY DEF WaitersOf
  <2>. QED BY <1>2, <2>1 DEF IInv, WaitersSound, Counted, WaitersCounted
<1>5. Admission'
  <2>1. Holders' = Holders
    BY <1>2 DEF Holders
  <2>. QED BY <2>1, AdmissionKept DEF IInv
<1>6. QueueSound'
  BY <1>2, ElementsLemma DEF IInv, TypeOK, QueueSound
<1>7. Registered' /\ OneBuildPerKey'
  BY <1>2, NoneAssumption DEF IInv, TypeOK, Registered, OneBuildPerKey
<1>8. Reads' /\ StillEmpty'
  BY <1>1, <1>2 DEF IInv, Reads, StillEmpty
<1>. QED BY <1>3, <1>4, <1>5, <1>6, <1>7, <1>8
     DEF IInv, Entries, FreshSnapshot, CacheExcludesCooldown

LEMMA DeadlineFiresStep == ASSUME IInv, NEW f \in Flight, DeadlineFires(f) PROVE IInv'
<1>. USE DEF DeadlineFires
<1>1. /\ queue' \in Seq(Flight) /\ NoRepeats(queue') /\ ToSet(queue') = ToSet(queue) \ {f}
      /\ ToSet(queue) \subseteq Flight
  BY RemoveFirstQueue, ElementsLemma DEF IInv, TypeOK, QueueSound
<1>2. /\ flight' \in [Flight -> FlightState] /\ flight'[f].cancel = "deadline"
      /\ \A g \in Flight : /\ g # f => flight'[g] = flight[g]
                           /\ flight'[g].key = flight[g].key
                           /\ flight'[g].phase = flight[g].phase
                           /\ flight'[g].read = flight[g].read
                           /\ flight'[g].waiters = flight[g].waiters
                           /\ Live(g)' <=> Live(g)
  BY DEF IInv, TypeOK, FlightState, Live
<1>3. TypeOK'
  BY <1>1, <1>2 DEF IInv, TypeOK
<1>4. WaitersSound' /\ Counted'
  <2>1. \A g \in Flight : WaitersOf(g)' = WaitersOf(g)
    BY DEF WaitersOf
  <2>. QED BY <1>2, <2>1 DEF IInv, WaitersSound, Counted, WaitersCounted
<1>5. Admission'
  <2>1. Holders' = Holders
    BY <1>2 DEF Holders
  <2>. QED BY <2>1, AdmissionKept DEF IInv
<1>6. QueueSound'
  BY <1>1, <1>2 DEF IInv, QueueSound
<1>7. Registered' /\ OneBuildPerKey'
  BY <1>2, NoneAssumption DEF IInv, TypeOK, Registered, OneBuildPerKey
<1>8. Reads' /\ StillEmpty'
  BY <1>2 DEF IInv, Reads, StillEmpty
<1>. QED BY <1>3, <1>4, <1>5, <1>6, <1>7, <1>8
     DEF IInv, Entries, FreshSnapshot, CacheExcludesCooldown

\* The finally block restores all that the flight had taken.
LEMMA FinallyStep ==
    ASSUME IInv, NEW f \in Flight, Live(f), NEW outcome \in Outcome, Finally(f, outcome),
           UNCHANGED <<gen, caller>>
    PROVE  /\ flights' \in [Key -> Flight \cup {NoFlight}]
           /\ flight' \in [Flight -> FlightState]
           /\ queue' \in Seq(Flight) /\ free' \in Nat
           /\ FlightParts' /\ Reads' /\ FreshSnapshot'
           /\ \A g \in Flight : Live(g)' <=> g # f /\ Live(g)
           /\ \A g \in Flight : /\ flight'[g].key = flight[g].key
                                /\ flight'[g].cancel = flight[g].cancel
<1>. USE DEF Finally
<1>1. /\ queue' \in Seq(Flight) /\ NoRepeats(queue') /\ ToSet(queue') = ToSet(queue) \ {f}
      /\ ToSet(queue) \subseteq Flight
  BY RemoveFirstQueue, ElementsLemma DEF IInv, TypeOK, QueueSound
<1>2. /\ flight' \in [Flight -> FlightState] /\ flight'[f].phase = "ended"
      /\ \A g \in Flight : /\ g # f => flight'[g] = flight[g]
                           /\ flight'[g].key = flight[g].key
                           /\ flight'[g].cancel = flight[g].cancel
                           /\ flight'[g].read = flight[g].read
                           /\ flight'[g].waiters = flight[g].waiters
                           /\ Live(g)' <=> g # f /\ Live(g)
  BY DEF IInv, TypeOK, FlightState, Live
<1>3. /\ flights' \in [Key -> Flight \cup {NoFlight}]
      /\ \A j \in Key : flights'[j] = IF j = flight[f].key /\ flights[j] = f
                                      THEN NoFlight ELSE flights[j]
  BY DEF IInv, TypeOK
<1>4. WaitersSound' /\ Counted'
  <2>1. \A g \in Flight : WaitersOf(g)' = WaitersOf(g)
    BY DEF WaitersOf
  <2>. QED BY <1>2, <2>1 DEF IInv, WaitersSound, Counted, WaitersCounted
<1>5. Admission' /\ free' \in Nat
  <2>1. Holders' = Holders \ {f} /\ (f \in Holders <=> flight[f].phase = "building")
    BY <1>2 DEF Holders
  <2>2. /\ IsFiniteSet(Holders')
        /\ Cardinality(Holders') = IF f \in Holders THEN Cardinality(Holders) - 1
                                                    ELSE Cardinality(Holders)
    BY <2>1, FS_RemoveElement DEF IInv, Admission
  <2>3. Cardinality(Holders) \in Nat
    BY FS_CardinalityType DEF IInv, Admission
  <2>. QED BY <2>1, <2>2, <2>3 DEF IInv, TypeOK, Admission, PermitsConserved
<1>6. QueueSound'
  BY <1>1, <1>2 DEF IInv, QueueSound
<1>7. Registered'
  <2>1. \A j \in Key : flights[j] \in Flight \cup {NoFlight}
    BY DEF IInv, TypeOK
  <2>. QED BY <1>2, <1>3, <2>1, NoneAssumption DEF IInv, Registered
<1>8. OneBuildPerKey'
  <2>1. \A g \in Flight : flight[g].key \in Key
    BY DEF IInv, TypeOK, FlightState
  <2>. QED BY <1>2, <1>3, <2>1 DEF IInv, OneBuildPerKey
<1>9. Reads' /\ FreshSnapshot'
  BY <1>2 DEF IInv, Reads, FreshSnapshot
<1>. QED BY <1>1, <1>2, <1>3, <1>4, <1>5, <1>6, <1>7, <1>8, <1>9 DEF FlightParts

\* What is left to prove of the step that ends a build.
LEMMA EndedStep ==
    ASSUME IInv, NEW f \in Flight, Live(f), NEW outcome \in Outcome, Finally(f, outcome),
           UNCHANGED <<gen, caller>>,
           cache' \in [Key -> Gen \cup {NoEntry}], cooldowns' \subseteq Key,
           Entries', CacheExcludesCooldown',
           \A k \in Key : cache'[k] # cache[k] =>
               \A g \in Flight \ {f} :
                   Live(g) /\ flight[g].key = k => flight[g].cancel = "waiters"
    PROVE  IInv'
<1>1. TypeOK'
  BY FinallyStep DEF IInv, TypeOK
<1>2. \A g \in Flight : flight[g].key \in Key
  BY DEF IInv, TypeOK, FlightState
<1>3. /\ \A g \in Flight : Live(g)' <=> g # f /\ Live(g)
      /\ \A g \in Flight : /\ flight'[g].key = flight[g].key
                           /\ flight'[g].cancel = flight[g].cancel
  BY FinallyStep
<1>4. StillEmpty'
  BY <1>2, <1>3 DEF IInv, StillEmpty
<1>. QED BY <1>1, <1>4, FinallyStep DEF IInv, FlightParts

\* Only the end of the one undisturbed build of a key fills its entry.
LEMMA CompletesStep == ASSUME IInv, NEW f \in Flight, Completes(f) PROVE IInv'
<1>1. PICK k \in Key : k = flight[f].key
  BY DEF IInv, TypeOK, FlightState
<1>2. /\ Live(f) /\ flight[f].cancel = "no" /\ flight[f].read \in Gen
      /\ flight[f].read >= k.gen /\ cooldowns' = cooldowns \ {k}
      /\ UNCHANGED <<gen, caller>>
  BY <1>1 DEF Completes, Live, IInv, TypeOK, FlightState, Reads
<1>3. PICK outcome \in {"built", "none"} : Finally(f, outcome)
  BY DEF Completes
<1>4. cache' = cache \/ cache' = [cache EXCEPT ![k] = flight[f].read]
  BY <1>1 DEF Completes
<1>5. /\ cache' \in [Key -> Gen \cup {NoEntry}]
      /\ \A j \in Key \ {k} : cache'[j] = cache[j]
      /\ cache'[k] = cache[k] \/ cache'[k] = flight[f].read
  BY <1>2, <1>4 DEF IInv, TypeOK
<1>6. Entries'
  BY <1>2, <1>5 DEF IInv, Entries
<1>7. cooldowns' \subseteq Key /\ CacheExcludesCooldown'
  BY <1>2, <1>5 DEF IInv, TypeOK, CacheExcludesCooldown
<1>8. ASSUME NEW g \in Flight \ {f}, Live(g), flight[g].key = k
      PROVE  flight[g].cancel = "waiters"
  <2>1. flight[g].cancel # "no"
    BY <1>1, <1>2, <1>8 DEF IInv, OneBuildPerKey
  <2>2. flight[g].cancel # "deadline"
    BY <1>1, <1>8 DEF Completes, Undisturbed
  <2>. QED BY <2>1, <2>2 DEF IInv, TypeOK, FlightState
<1>. QED BY <1>2, <1>3, <1>5, <1>6, <1>7, <1>8, EndedStep DEF Outcome

\* A failure or a deadline arms the cooldown of a key that has no entry.
LEMMA FailsStep ==
    ASSUME IInv, NEW f \in Flight, BuildFails(f) \/ DeadlineEnds(f) \/ CancelEnds(f)
    PROVE  IInv'
<1>1. /\ Live(f) /\ UNCHANGED <<gen, cache, caller>>
      /\ \E outcome \in Outcome : Finally(f, outcome)
      /\ \/ cooldowns' = cooldowns
         \/ /\ cooldowns' = cooldowns \cup {flight[f].key}
            /\ flight[f].cancel # "waiters"
  BY DEF BuildFails, DeadlineEnds, CancelEnds, Live, Outcome
<1>2. flight[f].key \in Key /\ cache \in [Key -> Gen \cup {NoEntry}] /\ cooldowns \subseteq Key
  BY DEF IInv, TypeOK, FlightState
<1>3. cooldowns' \subseteq Key /\ CacheExcludesCooldown' /\ Entries'
  BY <1>1, <1>2 DEF IInv, StillEmpty, CacheExcludesCooldown, Entries
<1>. QED BY <1>1, <1>2, <1>3, EndedStep

-----------------------------------------------------------------------------
(* The invariant                                                             *)

LEMMA CallerStep ==
    ASSUME IInv, NEW c \in Caller, Calls(c) \/ Gets(c) \/ Leaves(c) PROVE IInv'
  BY AnsweredStep, JoinsStep, LeadsStep, GetsStep, LeavesStep DEF Calls

LEMMA TaskStep ==
    ASSUME IInv, NEW f \in Flight, TaskSteps(f) \/ WorkerSteps(f) PROVE IInv'
  BY AdmittedStep, DeadlineFiresStep, FailsStep, WorkerReadsStep, CompletesStep
  DEF TaskSteps, WorkerSteps

LEMMA StutterStep == ASSUME IInv, UNCHANGED vars PROVE IInv'
  BY FlightFrame
  DEF IInv, vars, TypeOK, FlightParts, Reads, Entries, StillEmpty, FreshSnapshot,
      CacheExcludesCooldown, Live

LEMMA InvariantHolds == Spec => []IInv
<1>1. IInv /\ [Next]_vars => IInv'
  BY PublishesStep, CallerStep, TaskStep, CacheExpiresStep, CooldownExpiresStep, StutterStep
  DEF Next
<1>. QED BY InitHolds, <1>1, PTL DEF Spec

-----------------------------------------------------------------------------
(* The properties                                                            *)

\* Counters and registry tell the truth: the waiters of a build are counted, every
\* permit comes back, and a key is never both cached and cooling down
\* (_run_shared_snapshot_build, the finally block of build_snapshot_observed).
THEOREM BookkeepingSound == Spec => []Bookkeeping
<1>1. IInv => Bookkeeping
  BY DEF IInv, Counted, Admission, Bookkeeping
<1>. QED BY <1>1, InvariantHolds, PTL

\* However builds are replaced, at most one of a key runs undisturbed, and it is the
\* one that new callers join (the finally block of _run_shared_snapshot_build).
THEOREM SingleBuild == Spec => []OneBuildPerKey
<1>1. IInv => OneBuildPerKey
  BY DEF IInv
<1>. QED BY <1>1, InvariantHolds, PTL

\* Neither the cache nor a joined build hands out a payload older than the last one
\* published before the call (the generation in SnapshotBuildKey).
THEOREM Fresh == Spec => []FreshSnapshot
<1>1. IInv => FreshSnapshot
  BY DEF IInv
<1>. QED BY <1>1, InvariantHolds, PTL
================================================================================
