----------------------- MODULE TopicSubscriptionProofs -----------------------
(***************************************************************************)
(* Proofs about TopicSubscription for every number of connections,         *)
(* accounts, publishers and topics, every rollout stage and every LEASE_MAX.*)
(*                                                                          *)
(* The argument is the one topic_lease.py sketches.  An observation V of an *)
(* axis is taken before the authority is asked, so while the right is held, *)
(* or was lost at L, V <= L: that relation (Observed) survives every later  *)
(* loss of the right.  A lease expires at most LEASE_MAX after every        *)
(* observation it rests on, hence at most LEASE_MAX after L (LeaseSound).   *)
(***************************************************************************)
EXTENDS TopicSubscription, TLAPS

Observed(u, a, o) == o <= clock /\ (held[u][a] \/ o <= lostAt[u][a])

\* The axes whose authority has already said yes to the request of coroutine k.
Confirmed(k) ==
    (IF k.phase \in {"premium", "worker", "entitlement"} THEN {"identity"} ELSE {})
    \cup (IF k.phase \in {"worker", "entitlement"} THEN {"premium"} ELSE {})
    \cup (IF k.phase \in Axis /\ k.verdict = "granted" THEN {k.phase} ELSE {})

\* o is the owner of the connection of k.
RequestSound(k, o) ==
    k.phase \in AuthPhase =>
        /\ k.uid \in Uid
        /\ \A a \in Axis : k.obs[a] <= clock
        /\ \A a \in Confirmed(k) : Observed(k.uid, a, k.obs[a])
        /\ k.phase # "identity" => o = k.uid
        /\ k.phase = "worker" => k.verdict = "pending"

LeaseSound(u, t, e) ==
    /\ e <= clock + LeaseMax
    /\ \A a \in RequiredAxes(t) : held[u][a] \/ e <= lostAt[u][a] + LeaseMax

EntrySound(l, o, t) ==
    IF l = NoLease THEN t \in FreeTopics({t})
    ELSE l.uid = o /\ LeaseSound(l.uid, t, l.expires)

SubsSound(r, o) == \A t \in DOMAIN r : EntrySound(r[t], o, t)

RequestsSound == \A c \in Conn : RequestSound(task[c], owner[c])
RegistrySound == \A c \in Conn : SubsSound(registry[c], owner[c])

IInv == TypeOK /\ RequestsSound /\ RegistrySound /\ NoGhostSubscriber

-----------------------------------------------------------------------------
(* Lemmas on the operators                                                  *)

LEMMA AxesLemma ==
    ASSUME NEW t PROVE RequiredAxes(t) \subseteq Axis /\ "identity" \in RequiredAxes(t)
  BY DEF RequiredAxes, Axis

LEMMA FreeLemma ==
    ASSUME NEW ts, NEW t \in FreeTopics(ts)
    PROVE  t \in FreeTopics({t})
  BY TopicAssumption DEF FreeTopics, Stages

LEMMA FreeSubsetLemma ==
    ASSUME NEW ts \in SUBSET Topic PROVE FreeTopics(ts) \in SUBSET Topic
  BY TopicAssumption DEF FreeTopics, Stages

\* A lease never outlives an observation of an axis its topic needs, nor the
\* instant it is issued, by more than LEASE_MAX.
LEMMA ExpiryLemma ==
    ASSUME NEW t, NEW obs \in [Axis -> Nat], NEW now \in Nat
    PROVE  /\ LeaseExpiry(t, obs, now) \in Int
           /\ LeaseExpiry(t, obs, now) <= now + LeaseMax
           /\ \A a \in RequiredAxes(t) : LeaseExpiry(t, obs, now) <= obs[a] + LeaseMax
  <1>1. obs["identity"] \in Nat /\ obs["premium"] \in Nat /\ obs["entitlement"] \in Nat
    BY DEF Axis
  <1>2. LeaseMax \in Nat
    BY TimeAssumption
  <1>3. CASE t \in GatedTopic
    BY <1>1, <1>2, <1>3 DEF LeaseExpiry, Earlier, RequiredAxes, Axis
  <1>4. CASE t \notin GatedTopic /\ Stage = "enforce"
    BY <1>1, <1>2, <1>4 DEF LeaseExpiry, Earlier, RequiredAxes, Axis
  <1>5. CASE t \notin GatedTopic /\ Stage # "enforce"
    BY <1>1, <1>2, <1>5 DEF LeaseExpiry, Earlier, RequiredAxes, Axis
  <1>. QED BY <1>3, <1>4, <1>5

LEMMA EmptyTyped == IsSubscriptions(NoSubscription)
  BY DEF IsSubscriptions, NoSubscription

LEMMA RegisteredTyped ==
    ASSUME NEW r, NEW new, IsSubscriptions(r), IsSubscriptions(new)
    PROVE  /\ IsSubscriptions(Registered(r, new))
           /\ DOMAIN Registered(r, new) = DOMAIN r \cup DOMAIN new
  BY DEF IsSubscriptions, Registered

LEMMA UnregisteredTyped ==
    ASSUME NEW r, NEW ts, IsSubscriptions(r)
    PROVE  /\ IsSubscriptions(Unregistered(r, ts))
           /\ DOMAIN Unregistered(r, ts) = DOMAIN r \ ts
  BY DEF IsSubscriptions, Unregistered

LEMMA AtTyped ==
    ASSUME NEW ph \in Phase
    PROVE  At(ph) \in Task /\ At(ph).phase = ph
  BY DEF At, Task, NoObs, Axis, Verdict

\* A coroutine that waits to send a snapshot of every topic of ts.
LEMMA BuildTyped ==
    ASSUME NEW ts \in SUBSET Topic
    PROVE  /\ [At("build") EXCEPT !.topics = ts] \in Task
           /\ [At("build") EXCEPT !.topics = ts].phase = "build"
  <1>1. At("build") \in Task /\ At("build").phase = "build"
    BY AtTyped DEF Phase
  <1>. QED BY <1>1 DEF Task

\* One coroutine moves and the others stay.
LEMMA TaskMoves ==
    ASSUME TypeOK, NEW c \in Conn, NEW new \in Task,
           new.phase \in AuthPhase => new.uid \in Uid,
           task' = [task EXCEPT ![c] = new]
    PROVE  TaskOK'
  BY DEF TypeOK, TaskOK

LEMMA TaskTyped ==
    ASSUME TypeOK, NEW c \in Conn
    PROVE  /\ task[c] \in Task /\ clock \in Nat
           /\ task[c].phase \in AuthPhase => task[c].uid \in Uid
  BY DEF TypeOK, TaskOK

LEMMA RegistryMoves ==
    ASSUME TypeOK, NEW c \in Conn, NEW r, IsSubscriptions(r),
           registry' = [registry EXCEPT ![c] = r]
    PROVE  RegistryOK'
  BY DEF TypeOK, RegistryOK

\* The step that settles a request keeps the types of the registry and of the
\* coroutine.
LEMMA SettleTyped ==
    ASSUME TypeOK, NEW c \in Conn, NEW denied \in SUBSET Topic, Settle(c, denied),
           task[c].uid \in Uid
    PROVE  RegistryOK' /\ TaskOK'
  <1> DEFINE accepted == Authorizable(task[c].topics) \ denied
             new == [t \in accepted |->
                        [uid |-> task[c].uid,
                         expires |-> LeaseExpiry(t, task[c].obs, clock)]]
             before == Unregistered(registry[c], denied)
             after == Registered(before, new)
             acked == [At("ack") EXCEPT !.topics = accepted,
                                        !.rejected = Refused(c) \cup denied,
                                        !.active = DOMAIN after]
  <1>1. task[c] \in Task /\ clock \in Nat
    BY TaskTyped
  <1>2. accepted \in SUBSET Topic
    BY <1>1 DEF Authorizable, Task
  <1>3. IsSubscriptions(new)
    <2>1. ASSUME NEW t \in accepted PROVE new[t] \in Lease
      BY <1>1, <2>1, ExpiryLemma DEF Lease, Task
    <2>. QED BY <1>2, <2>1 DEF IsSubscriptions
  <1>4. IsSubscriptions(before)
    BY UnregisteredTyped DEF TypeOK, RegistryOK
  <1>5. IsSubscriptions(after)
    <2>. HIDE DEF new, before
    <2>. QED BY <1>3, <1>4, RegisteredTyped
  <1>6. registry' = [registry EXCEPT ![c] = after]
        /\ task' = [task EXCEPT ![c] = acked]
    BY DEF Settle
  <1>7. DOMAIN after \subseteq Topic
    BY <1>5 DEF IsSubscriptions
  <1>8. Refused(c) \subseteq Topic
    BY <1>1 DEF Refused, Task
  <1>9. acked \in Task /\ acked.phase = "ack"
    <2>. HIDE DEF after, accepted
    <2>1. At("ack") \in Task /\ At("ack").phase = "ack"
      BY AtTyped DEF Phase
    <2>. QED BY <1>2, <1>7, <1>8, <2>1 DEF Task
  <1>10. RegistryOK'
    <2>. HIDE DEF after
    <2>. QED BY <1>5, <1>6, RegistryMoves
  <1>11. TaskOK'
    <2>. HIDE DEF acked
    <2>. QED BY <1>6, <1>9, TaskMoves DEF AuthPhase
  <1>. QED BY <1>10, <1>11

LEMMA RemoveTyped ==
    ASSUME TypeOK, NEW cs, RemoveWebsocket(cs)
    PROVE  RegistryOK'
  BY EmptyTyped DEF RemoveWebsocket, TypeOK, RegistryOK

LEMMA EndsTyped ==
    ASSUME TypeOK, NEW c \in Conn, Ends(c) \/ EvictsAndCloses(c)
    PROVE  /\ RegistryOK' /\ TaskOK'
           /\ sock' \in [Conn -> {"none", "open", "peer_gone", "shut"}]
  <1>1. At("ended") \in Task /\ At("ended").phase = "ended"
        /\ At("closing") \in Task /\ At("closing").phase = "closing"
    BY AtTyped DEF Phase
  <1>2. RemoveWebsocket({c})
    BY DEF Ends, EvictsAndCloses
  <1>3. TaskOK'
    BY <1>1, TaskMoves DEF Ends, EvictsAndCloses, AuthPhase
  <1>. QED
    BY <1>2, <1>3, RemoveTyped DEF Ends, EvictsAndCloses, TypeOK

LEMMA RestTyped ==
    ASSUME TypeOK, NEW c \in Conn, NEW t
    PROVE  Rest(c, t) \in Task /\ Rest(c, t).phase \notin AuthPhase
  <1>1. task[c].topics \ {t} \in SUBSET Topic
    BY TaskTyped DEF Task
  <1>2. At("idle") \in Task /\ At("idle").phase = "idle"
    BY AtTyped DEF Phase
  <1>. QED BY <1>1, <1>2, BuildTyped DEF Rest, AuthPhase

-----------------------------------------------------------------------------
(* Types                                                                    *)

LEMMA TypeInit == Init => TypeOK
  <1>. SUFFICES ASSUME Init PROVE TypeOK
    OBVIOUS
  <1>1. At("absent") \in Task /\ At("absent").phase = "absent"
    BY AtTyped DEF Phase
  <1>2. TaskOK
    BY <1>1 DEF Init, TaskOK, AuthPhase
  <1>3. RegistryOK
    BY EmptyTyped DEF Init, RegistryOK
  <1>4. /\ clock \in 0..MaxTime /\ gen \in [Topic -> Nat]
        /\ pub \in [Publisher -> PubState]
        /\ owner \in [Conn -> Uid \cup {NoUid}]
        /\ sock \in [Conn -> {"none", "open", "peer_gone", "shut"}]
    BY TimeAssumption DEF Init, PubState
  <1>5. held \in [Uid -> [Axis -> BOOLEAN]] /\ lostAt \in [Uid -> [Axis -> Int]]
    BY TimeAssumption DEF Init
  <1>. QED BY <1>2, <1>3, <1>4, <1>5 DEF TypeOK

LEMMA TypeMessage ==
    ASSUME TypeOK, NEW c \in Conn, Message(c) PROVE TypeOK'
  <1>1. ASSUME NEW ts \in SUBSET Topic, AnonymousSubscribe(c, ts) PROVE TypeOK'
    <2> DEFINE free == [t \in FreeTopics(ts) |-> NoLease]
               after == Registered(registry[c], free)
    <2>1. FreeTopics(ts) \in SUBSET Topic
      BY FreeSubsetLemma
    <2>2. IsSubscriptions(free)
      BY <2>1 DEF IsSubscriptions
    <2>3. IsSubscriptions(after)
      <3>. HIDE DEF free
      <3>. QED BY <2>2, RegisteredTyped DEF TypeOK, RegistryOK
    <2>4. registry' = [registry EXCEPT ![c] = after]
          /\ task' = [task EXCEPT ![c] = [At("build") EXCEPT !.topics = FreeTopics(ts)]]
      BY <1>1 DEF AnonymousSubscribe, TypeOK, RegistryOK
    <2>5. RegistryOK'
      <3>. HIDE DEF after
      <3>. QED BY <2>3, <2>4, RegistryMoves
    <2>6. TaskOK'
      BY <2>1, <2>4, BuildTyped, TaskMoves DEF AuthPhase
    <2>. QED BY <1>1, <2>5, <2>6 DEF AnonymousSubscribe, TypeOK
  <1>2. ASSUME NEW ts \in SUBSET Topic, NEW u \in Uid, Subscribe(c, u, ts) PROVE TypeOK'
    <2> DEFINE asked == [At("identity") EXCEPT !.uid = u, !.topics = ts,
                                               !.obs["identity"] = clock]
    <2>1. asked \in Task /\ asked.uid = u
      <3>1. At("identity") \in Task
        BY AtTyped DEF Phase, AuthPhase
      <3>. QED BY <3>1, TaskTyped DEF Task
    <2>2. TaskOK'
      <3>1. task' = [task EXCEPT ![c] = asked]
        BY <1>2 DEF Subscribe
      <3>. HIDE DEF asked
      <3>. QED BY <2>1, <3>1, TaskMoves
    <2>. QED BY <1>2, <2>2 DEF Subscribe, TypeOK, RegistryOK
  <1>3. ASSUME NEW ts \in SUBSET Topic, Unsubscribe(c, ts) PROVE TypeOK'
    <2>1. IsSubscriptions(Unregistered(registry[c], ts))
      BY UnregisteredTyped DEF TypeOK, RegistryOK
    <2>2. RegistryOK'
      <3>1. registry' = [registry EXCEPT ![c] = Unregistered(registry[c], ts)]
        BY <1>3 DEF Unsubscribe, TypeOK, RegistryOK
      <3>. QED BY <2>1, <3>1, RegistryMoves
    <2>3. At("removed") \in Task /\ At("removed").phase = "removed"
      BY AtTyped DEF Phase
    <2>4. CASE task' = task
      BY <1>3, <2>2, <2>4 DEF Unsubscribe, TypeOK, TaskOK
    <2>5. CASE task' = [task EXCEPT ![c] = At("removed")]
      <3>1. TaskOK'
        BY <2>3, <2>5, TaskMoves DEF AuthPhase
      <3>. QED BY <1>3, <2>2, <3>1 DEF Unsubscribe, TypeOK
    <2>. QED BY <1>3, <2>4, <2>5 DEF Unsubscribe
  <1>. QED BY <1>1, <1>2, <1>3 DEF Message

LEMMA TypeAuthorisation ==
    ASSUME TypeOK, NEW c \in Conn, Authorisation(c) PROVE TypeOK'
  <1>0. /\ task[c] \in Task /\ clock \in Nat
        /\ task[c].phase \in AuthPhase => task[c].uid \in Uid
        /\ task = [d \in Conn |-> task[d]]
    BY TaskTyped DEF TypeOK, TaskOK
  <1>1. CASE AuthorityDecides(c)
    <2>1. PICK v \in Verdict : task' = [task EXCEPT ![c].verdict = v]
      BY <1>1 DEF AuthorityDecides, Verdict
    <2>2. [task[c] EXCEPT !.verdict = v] \in Task
          /\ ([task[c] EXCEPT !.verdict = v].phase \in AuthPhase
                 => [task[c] EXCEPT !.verdict = v].uid \in Uid)
      BY <1>0 DEF Task
    <2>3. TaskOK'
      BY <1>0, <2>1, <2>2, TaskMoves
    <2>. QED BY <1>1, <2>3 DEF AuthorityDecides, TypeOK, RegistryOK
  <1>2. CASE EntitlementWorkerStarts(c)
    <2> DEFINE new == [task[c] EXCEPT !.phase = "entitlement",
                                      !.obs["entitlement"] = clock]
    <2>1. new \in Task /\ new.uid \in Uid
      BY <1>0, <1>2 DEF EntitlementWorkerStarts, Task, Phase, AuthPhase, Axis
    <2>2. TaskOK'
      <3>1. task' = [task EXCEPT ![c] = new]
        BY <1>0, <1>2 DEF EntitlementWorkerStarts
      <3>. HIDE DEF new
      <3>. QED BY <2>1, <3>1, TaskMoves
    <2>. QED BY <1>2, <2>2 DEF EntitlementWorkerStarts, TypeOK, RegistryOK
  <1>3. CASE Inconclusive(c) \/ AuthDeadline(c)
    <2>1. At("error") \in Task /\ At("error").phase = "error"
      BY AtTyped DEF Phase
    <2>2. TaskOK'
      BY <1>3, <2>1, TaskMoves DEF Inconclusive, AuthDeadline, AuthPhase
    <2>. QED BY <1>3, <2>2 DEF Inconclusive, AuthDeadline, TypeOK, RegistryOK
  <1>4. CASE Unclassified(c)
    BY <1>4, EndsTyped DEF Unclassified, TypeOK
  <1>5. CASE IdentityGranted(c)
    <2>1. task[c].uid \in Uid
      BY <1>0, <1>5 DEF IdentityGranted, AuthPhase
    <2>2. owner' \in [Conn -> Uid \cup {NoUid}]
      BY <1>5, <2>1 DEF IdentityGranted, TypeOK
    <2>3. CASE Settle(c, {})
      BY <1>5, <2>1, <2>2, <2>3, SettleTyped DEF IdentityGranted, TypeOK
    <2>4. CASE /\ task' = [task EXCEPT ![c].phase = "premium", ![c].verdict = "pending",
                                       ![c].obs["premium"] = clock]
               /\ UNCHANGED registry
      <3> DEFINE new == [task[c] EXCEPT !.phase = "premium", !.verdict = "pending",
                                        !.obs["premium"] = clock]
      <3>1. new \in Task /\ new.uid \in Uid
        BY <1>0, <2>1 DEF Task, Phase, AuthPhase, Axis, Verdict
      <3>2. task' = [task EXCEPT ![c] = new]
        BY <1>0, <2>4
      <3>3. TaskOK'
        <4>. HIDE DEF new
        <4>. QED BY <3>1, <3>2, TaskMoves
      <3>. QED BY <1>5, <2>2, <2>4, <3>3 DEF IdentityGranted, TypeOK, RegistryOK
    <2>. QED BY <1>5, <2>3, <2>4 DEF IdentityGranted
  <1>6. CASE IdentityConflict(c)
    <2>1. At("closing") \in Task /\ At("closing").phase = "closing"
      BY AtTyped DEF Phase
    <2>2. TaskOK'
      BY <1>6, <2>1, TaskMoves DEF IdentityConflict, AuthPhase
    <2>. QED BY <1>6, <2>2 DEF IdentityConflict, TypeOK, RegistryOK
  <1>7. CASE PremiumGranted(c)
    <2>1. task[c].uid \in Uid
      BY <1>0, <1>7 DEF PremiumGranted, AuthPhase
    <2>2. CASE Settle(c, {})
      BY <1>7, <2>1, <2>2, SettleTyped DEF PremiumGranted, TypeOK
    <2>3. CASE /\ task' = [task EXCEPT ![c].phase = "worker", ![c].verdict = "pending"]
               /\ UNCHANGED registry
      <3> DEFINE new == [task[c] EXCEPT !.phase = "worker", !.verdict = "pending"]
      <3>1. new \in Task /\ new.uid \in Uid
        BY <1>0, <2>1 DEF Task, Phase, AuthPhase, Verdict
      <3>2. task' = [task EXCEPT ![c] = new]
        BY <1>0, <2>3
      <3>3. TaskOK'
        <4>. HIDE DEF new
        <4>. QED BY <3>1, <3>2, TaskMoves
      <3>. QED BY <1>7, <2>3, <3>3 DEF PremiumGranted, TypeOK, RegistryOK
    <2>. QED BY <1>7, <2>2, <2>3 DEF PremiumGranted
  <1>8. CASE PremiumDenied(c) \/ EntitlementGranted(c) \/ EntitlementDenied(c)
    <2>1. task[c].uid \in Uid
      BY <1>0, <1>8
         DEF PremiumDenied, EntitlementGranted, EntitlementDenied, AuthPhase
    <2>2. PICK denied \in SUBSET Topic : Settle(c, denied)
      <3>1. PremiumPart(task[c].topics) \in SUBSET Topic
            /\ EntitlementPart(task[c].topics) \in SUBSET Topic
        BY <1>0 DEF PremiumPart, EntitlementPart, Authorizable, Task
      <3>. QED BY <1>8, <3>1 DEF PremiumDenied, EntitlementGranted, EntitlementDenied
    <2>. QED
      BY <1>8, <2>1, <2>2, SettleTyped
         DEF PremiumDenied, EntitlementGranted, EntitlementDenied, TypeOK
  <1>. QED
    BY <1>1, <1>2, <1>3, <1>4, <1>5, <1>6, <1>7, <1>8 DEF Authorisation

LEMMA TypeDelivery ==
    ASSUME TypeOK, NEW c \in Conn, Delivery(c) PROVE TypeOK'
  <1>0. task[c] \in Task /\ task = [d \in Conn |-> task[d]]
    BY TaskTyped DEF TypeOK, TaskOK
  <1>1. CASE FrameSent(c)
    <2>1. /\ At("idle") \in Task /\ At("idle").phase = "idle"
          /\ [At("build") EXCEPT !.topics = task[c].topics] \in Task
          /\ [At("build") EXCEPT !.topics = task[c].topics].phase = "build"
      BY <1>0, AtTyped, BuildTyped DEF Phase, Task
    <2>2. TaskOK'
      BY <1>1, <2>1, TaskMoves DEF FrameSent, Returns, AuthPhase
    <2>. QED BY <1>1, <2>2 DEF FrameSent, TypeOK, RegistryOK
  <1>2. CASE FrameFails(c) \/ SnapshotFails(c)
    BY <1>2, EndsTyped DEF FrameFails, SnapshotFails, TypeOK
  <1>3. ASSUME NEW t \in Topic, SnapshotBuilt(c, t) PROVE TypeOK'
    <2> DEFINE new == [task[c] EXCEPT !.phase = "send", !.cur = {t}]
    <2>1. new \in Task /\ new.phase = "send"
      BY <1>0 DEF Task, Phase
    <2>2. task' = [task EXCEPT ![c] = new] \/ task' = [task EXCEPT ![c] = Rest(c, t)]
      BY <1>0, <1>3 DEF SnapshotBuilt
    <2>3. TaskOK'
      <3>. HIDE DEF new
      <3>. QED BY <2>1, <2>2, RestTyped, TaskMoves DEF AuthPhase
    <2>. QED BY <1>3, <2>3 DEF SnapshotBuilt, TypeOK, RegistryOK
  <1>4. CASE SnapshotSent(c)
    <2>1. PICK t : task' = [task EXCEPT ![c] = Rest(c, t)]
      BY <1>4 DEF SnapshotSent
    <2>2. TaskOK'
      BY <2>1, RestTyped, TaskMoves
    <2>. QED BY <1>4, <2>2 DEF SnapshotSent, TypeOK, RegistryOK
  <1>. QED BY <1>1, <1>2, <1>3, <1>4 DEF Delivery

LEMMA TypePublish ==
    ASSUME TypeOK, NEW p \in Publisher, Publish(p) PROVE TypeOK'
  <1>1. ASSUME NEW t \in Topic, PublishBegins(p, t) PROVE TypeOK'
    <2>1. Selected(t) \in SUBSET Conn
      BY DEF Selected, LeasedSubscribers
    <2>2. pub' \in [Publisher -> PubState] /\ gen' \in [Topic -> Nat]
      BY <1>1, <2>1 DEF PublishBegins, TypeOK, PubState
    <2>. QED BY <1>1, <2>2 DEF PublishBegins, TypeOK, RegistryOK, TaskOK
  <1>2. ASSUME NEW c \in Conn, PublishSends(p, c) PROVE TypeOK'
    <2>1. pub[p] \in PubState
      BY DEF TypeOK
    <2>2. pub' \in [Publisher -> PubState]
      BY <1>2, <2>1 DEF PublishSends, TypeOK, PubState
    <2>3. UNCHANGED registry \/ RemoveWebsocket({c})
      BY <1>2 DEF PublishSends
    <2>4. RegistryOK'
      BY <2>3, RemoveTyped DEF TypeOK, RegistryOK
    <2>. QED BY <1>2, <2>2, <2>4 DEF PublishSends, TypeOK, TaskOK
  <1>3. CASE PublishEnds(p)
    BY <1>3 DEF PublishEnds, TypeOK, PubState, RegistryOK, TaskOK
  <1>. QED BY <1>1, <1>2, <1>3, TopicAssumption DEF Publish

LEMMA TypeStep == TypeOK /\ [Next]_vars => TypeOK'
  <1>. SUFFICES ASSUME TypeOK, [Next]_vars PROVE TypeOK'
    OBVIOUS
  <1>1. CASE UNCHANGED vars
    BY <1>1 DEF vars, TypeOK, RegistryOK, TaskOK
  <1>2. CASE World
    <2>1. /\ registry' = registry /\ task' = task /\ pub' = pub /\ gen' = gen
          /\ owner' = owner
      BY <1>2 DEF World, Tick, LosesRight, GainsRight, PeerLeaves
    <2>2. CASE Tick
      BY <2>1, <2>2, TimeAssumption DEF Tick, TypeOK, RegistryOK, TaskOK
    <2>3. ASSUME NEW u \in Uid, NEW a \in Axis, LosesRight(u, a) \/ GainsRight(u, a)
          PROVE  TypeOK'
      <3>1. held' \in [Uid -> [Axis -> BOOLEAN]]
        <4>1. PICK b \in BOOLEAN : held' = [held EXCEPT ![u][a] = b]
          BY <2>3 DEF LosesRight, GainsRight
        <4>2. held \in [Uid -> [Axis -> BOOLEAN]]
          BY DEF TypeOK
        <4>3. [held[u] EXCEPT ![a] = b] \in [Axis -> BOOLEAN]
          BY <4>2
        <4>. QED BY <4>1, <4>2, <4>3
      <3>2. clock \in Int /\ -LeaseMax \in Int
        BY TimeAssumption DEF TypeOK
      <3>3. lostAt' \in [Uid -> [Axis -> Int]]
        BY <2>3, <3>2 DEF LosesRight, GainsRight, TypeOK
      <3>. QED
        BY <2>1, <2>3, <3>1, <3>3
           DEF LosesRight, GainsRight, TypeOK, RegistryOK, TaskOK
    <2>4. ASSUME NEW c \in Conn, PeerLeaves(c) PROVE TypeOK'
      BY <2>1, <2>4 DEF PeerLeaves, TypeOK, RegistryOK, TaskOK
    <2>. QED BY <1>2, <2>2, <2>3, <2>4 DEF World
  <1>3. ASSUME NEW c \in Conn, Connects(c) PROVE TypeOK'
    <2>1. At("idle") \in Task /\ At("idle").phase = "idle"
      BY AtTyped DEF Phase
    <2>2. TaskOK'
      BY <1>3, <2>1, TaskMoves DEF Connects, AuthPhase
    <2>. QED BY <1>3, <2>2 DEF Connects, TypeOK, RegistryOK
  <1>4. ASSUME NEW c \in Conn, EndpointEnds(c) PROVE TypeOK'
    BY <1>4, EndsTyped DEF EndpointEnds, TypeOK
  <1>. QED
    BY <1>1, <1>2, <1>3, <1>4, TypeMessage, TypeAuthorisation, TypeDelivery, TypePublish
       DEF Next

\* Every variable keeps its type, for any registry the handlers can build: in
\* particular a lease is always a lease, never the NoLease of an anonymous
\* subscription with an account attached.
THEOREM TypeCorrect == Spec => []TypeOK
  BY TypeInit, TypeStep, PTL DEF Spec

-----------------------------------------------------------------------------
(* The inductive invariant: lemmas on what a step does to its parts         *)

LEMMA RegisteredSound ==
    ASSUME NEW r, NEW new, NEW o, SubsSound(r, o), SubsSound(new, o)
    PROVE  SubsSound(Registered(r, new), o)
  BY DEF SubsSound, Registered

LEMMA UnregisteredSound ==
    ASSUME NEW r, NEW ts, NEW o, SubsSound(r, o)
    PROVE  SubsSound(Unregistered(r, ts), o)
  BY DEF SubsSound, Unregistered

LEMMA EmptySound ==
    ASSUME NEW o PROVE SubsSound(NoSubscription, o)
  BY DEF SubsSound, NoSubscription

\* Losing or regaining a right, or the passing of time, invalidates no
\* observation and no lease.
LEMMA WorldSound ==
    ASSUME IInv, World
    PROVE  RequestsSound' /\ RegistrySound' /\ NoGhostSubscriber'
  <1>1. /\ registry' = registry /\ task' = task /\ owner' = owner
    BY DEF World, Tick, LosesRight, GainsRight, PeerLeaves
  <1>2. clock \in Nat /\ clock' \in Nat /\ clock <= clock'
    BY DEF World, Tick, LosesRight, GainsRight, PeerLeaves, IInv, TypeOK
  <1>3. ASSUME NEW u \in Uid, NEW a \in Axis
        PROVE  \/ held'[u][a]
               \/ ~held[u][a] /\ lostAt'[u][a] = lostAt[u][a]
               \/ lostAt'[u][a] = clock
    <2>1. CASE Tick \/ \E c \in Conn : PeerLeaves(c)
      BY <2>1 DEF Tick, PeerLeaves
    <2>2. ASSUME NEW v \in Uid, NEW b \in Axis, LosesRight(v, b)
          PROVE  \/ held'[u][a]
                 \/ ~held[u][a] /\ lostAt'[u][a] = lostAt[u][a]
                 \/ lostAt'[u][a] = clock
      BY <2>2 DEF LosesRight, IInv, TypeOK
    <2>3. ASSUME NEW v \in Uid, NEW b \in Axis, GainsRight(v, b)
          PROVE  \/ held'[u][a]
                 \/ ~held[u][a] /\ lostAt'[u][a] = lostAt[u][a]
                 \/ lostAt'[u][a] = clock
      BY <2>3 DEF GainsRight, IInv, TypeOK
    <2>. QED BY <2>1, <2>2, <2>3 DEF World
  <1>4. ASSUME NEW u \in Uid, NEW a \in Axis, NEW o \in Nat, Observed(u, a, o)
        PROVE  Observed(u, a, o)'
    BY <1>2, <1>3, <1>4 DEF Observed
  <1>5. ASSUME NEW u \in Uid, NEW t, NEW e \in Int, LeaseSound(u, t, e)
        PROVE  LeaseSound(u, t, e)'
    <2>1. LeaseMax \in Nat /\ e <= clock' + LeaseMax
      BY <1>2, <1>5, TimeAssumption DEF LeaseSound
    <2>2. ASSUME NEW a \in RequiredAxes(t)
          PROVE  held'[u][a] \/ e <= lostAt'[u][a] + LeaseMax
      <3>1. a \in Axis
        BY AxesLemma
      <3>2. e <= clock + LeaseMax /\ (held[u][a] \/ e <= lostAt[u][a] + LeaseMax)
        BY <1>5 DEF LeaseSound
      <3>. QED BY <1>3, <3>1, <3>2
    <2>. QED BY <2>1, <2>2 DEF LeaseSound
  <1>6. RequestsSound'
    <2>1. SUFFICES ASSUME NEW c \in Conn, RequestSound(task[c], owner[c])
                   PROVE  RequestSound(task[c], owner[c])'
      BY DEF IInv, RequestsSound
    <2>2. task[c] \in Task
      BY TaskTyped DEF IInv
    <2>3. Confirmed(task[c])' = Confirmed(task[c]) /\ Confirmed(task[c]) \subseteq Axis
      BY <1>1 DEF Confirmed, Axis
    <2>. QED BY <1>1, <1>2, <1>4, <2>1, <2>2, <2>3 DEF RequestSound, Task
  <1>7. RegistrySound'
    <2>1. SUFFICES ASSUME NEW c \in Conn, NEW t \in DOMAIN registry[c],
                          EntrySound(registry[c][t], owner[c], t)
                   PROVE  EntrySound(registry[c][t], owner[c], t)'
      BY <1>1 DEF IInv, RegistrySound, SubsSound
    <2>2. registry[c][t] \in Lease \cup {NoLease}
      BY DEF IInv, TypeOK, RegistryOK, IsSubscriptions
    <2>. QED BY <1>1, <1>5, <2>1, <2>2 DEF EntrySound, Lease, FreeTopics
  <1>8. NoGhostSubscriber'
    BY <1>1 DEF IInv, NoGhostSubscriber, Subs
  <1>. QED BY <1>6, <1>7, <1>8

\* What is sound stays sound while no right changes and no time passes.
LEMMA SoundFrame ==
    ASSUME NEW d, UNCHANGED <<clock, held, lostAt>>,
           SubsSound(registry'[d], owner'[d])
    PROVE  SubsSound(registry[d], owner[d])'
  BY DEF SubsSound, EntrySound, LeaseSound

LEMMA RequestFrame ==
    ASSUME NEW d, UNCHANGED <<clock, held, lostAt>>,
           RequestSound(task'[d], owner'[d])
    PROVE  RequestSound(task[d], owner[d])'
  BY DEF RequestSound, Confirmed, Observed

\* One coroutine moves to new; the other requests are untouched.
LEMMA RequestMoves ==
    ASSUME IInv, NEW c \in Conn, NEW new \in Task, NEW o, RequestSound(new, o),
           task' = [task EXCEPT ![c] = new], owner'[c] = o,
           UNCHANGED <<clock, held, lostAt>>,
           \A d \in Conn \ {c} : owner'[d] = owner[d]
    PROVE  RequestsSound'
  <1>1. task'[c] = new /\ \A d \in Conn \ {c} : task'[d] = task[d]
    BY DEF IInv, TypeOK, TaskOK
  <1>2. ASSUME NEW d \in Conn PROVE RequestSound(task[d], owner[d])'
    <2>1. CASE d = c
      BY <1>1, <2>1 DEF RequestSound, Confirmed, Observed
    <2>2. CASE d # c
      BY <1>1, <2>2 DEF IInv, RequestsSound, RequestSound, Confirmed, Observed
    <2>. QED BY <2>1, <2>2
  <1>. QED BY <1>2 DEF RequestsSound

\* One connection gets the subscriptions r; the others keep or lose theirs.
LEMMA SubsMove ==
    ASSUME IInv, NEW c \in Conn, NEW r, NEW o, SubsSound(r, o),
           registry' = [registry EXCEPT ![c] = r], owner'[c] = o,
           UNCHANGED <<clock, held, lostAt>>,
           \A d \in Conn \ {c} : owner'[d] = owner[d]
    PROVE  RegistrySound'
  <1>1. registry'[c] = r /\ \A d \in Conn \ {c} : registry'[d] = registry[d]
    BY DEF IInv, TypeOK, RegistryOK
  <1>2. ASSUME NEW d \in Conn PROVE SubsSound(registry[d], owner[d])'
    <2>1. CASE d = c
      BY <1>1, <2>1, SoundFrame
    <2>2. CASE d # c
      <3>1. SubsSound(registry[d], owner[d])
        BY DEF IInv, RegistrySound
      <3>. QED BY <1>1, <2>2, <3>1, SoundFrame
    <2>. QED BY <2>1, <2>2
  <1>. QED BY <1>2 DEF RegistrySound

LEMMA RemoveSound ==
    ASSUME IInv, NEW cs, RemoveWebsocket(cs), UNCHANGED <<clock, held, lostAt, owner>>
    PROVE  RegistrySound'
  <1>1. ASSUME NEW d \in Conn PROVE SubsSound(registry[d], owner[d])'
    <2>1. registry'[d] \in {registry[d], NoSubscription}
      BY DEF RemoveWebsocket
    <2>2. SubsSound(registry'[d], owner[d])
      BY <2>1, EmptySound DEF IInv, RegistrySound
    <2>. QED BY <2>2, SoundFrame
  <1>. QED BY <1>1 DEF RegistrySound

LEMMA EndsSound ==
    ASSUME IInv, NEW c \in Conn, Ends(c) \/ EvictsAndCloses(c),
           UNCHANGED <<clock, held, lostAt, owner>>
    PROVE  RequestsSound' /\ RegistrySound' /\ NoGhostSubscriber'
  <1>1. At("ended") \in Task /\ At("ended").phase = "ended"
        /\ At("closing") \in Task /\ At("closing").phase = "closing"
    BY AtTyped DEF Phase
  <1>2. RequestSound(At("ended"), owner[c]) /\ RequestSound(At("closing"), owner[c])
    BY <1>1 DEF RequestSound, AuthPhase
  <1>3. PICK new \in {At("ended"), At("closing")} : task' = [task EXCEPT ![c] = new]
    BY DEF Ends, EvictsAndCloses
  <1>4. RequestsSound'
    BY <1>1, <1>2, <1>3, RequestMoves DEF IInv
  <1>5. RemoveWebsocket({c})
    BY DEF Ends, EvictsAndCloses
  <1>6. RegistrySound'
    BY <1>5, RemoveSound
  <1>7. NoGhostSubscriber'
    <2>1. ASSUME NEW d \in Conn, task'[d].phase \in {"absent", "ended"}
          PROVE  DOMAIN registry'[d] = {}
      BY <1>3, <1>5, <2>1
         DEF RemoveWebsocket, NoSubscription, IInv, NoGhostSubscriber, Subs, TypeOK, TaskOK
    <2>. QED BY <2>1 DEF NoGhostSubscriber, Subs
  <1>. QED BY <1>4, <1>6, <1>7

\* A coroutine that goes on is no ghost, whatever its subscriptions.
LEMMA GhostFree ==
    ASSUME IInv, NEW c \in Conn, NEW new, new.phase \notin {"absent", "ended"},
           task' = [task EXCEPT ![c] = new],
           \A d \in Conn \ {c} : registry'[d] = registry[d]
    PROVE  NoGhostSubscriber'
  BY DEF IInv, NoGhostSubscriber, Subs, TypeOK, TaskOK

\* The leases a settled request issues are sound when every axis its accepted
\* topics need was confirmed: the minimum of the observations pays for the time
\* the later verifications took.
LEMMA NewLeasesSound ==
    ASSUME IInv, NEW c \in Conn, NEW ts \in SUBSET Topic,
           task[c].phase \in AuthPhase,
           \A t \in ts : RequiredAxes(t) \subseteq Confirmed(task[c])
    PROVE  SubsSound([t \in ts |-> [uid |-> task[c].uid,
                                    expires |-> LeaseExpiry(t, task[c].obs, clock)]],
                     task[c].uid)
  <1> DEFINE k == task[c]
             new(t) == [uid |-> k.uid, expires |-> LeaseExpiry(t, k.obs, clock)]
  <1>1. clock \in Nat /\ k.obs \in [Axis -> Nat] /\ k.uid \in Uid
    BY TaskTyped DEF IInv, Task
  <1>2. \A a \in Confirmed(k) : Observed(k.uid, a, k.obs[a])
    BY DEF IInv, RequestsSound, RequestSound
  <1>3. ASSUME NEW t \in ts PROVE EntrySound(new(t), k.uid, t)
    <2>1. new(t) # NoLease
      <3>1. new(t) \in [uid : Uid, expires : Int]
        BY <1>1, ExpiryLemma
      <3>. QED BY <3>1, NoneAssumption
    <2>2. LeaseExpiry(t, k.obs, clock) \in Int
          /\ LeaseExpiry(t, k.obs, clock) <= clock + LeaseMax
      BY <1>1, ExpiryLemma
    <2>3. ASSUME NEW a \in RequiredAxes(t)
          PROVE  \/ held[k.uid][a]
                 \/ LeaseExpiry(t, k.obs, clock) <= lostAt[k.uid][a] + LeaseMax
      <3>1. Observed(k.uid, a, k.obs[a]) /\ a \in Axis
        BY <1>2, <1>3, AxesLemma
      <3>2. LeaseExpiry(t, k.obs, clock) <= k.obs[a] + LeaseMax
        BY <1>1, ExpiryLemma
      <3>3. CASE held[k.uid][a]
        BY <3>3
      <3>4. CASE ~held[k.uid][a]
        <4>1. k.obs[a] <= lostAt[k.uid][a]
          BY <3>1, <3>4 DEF Observed
        <4>2. lostAt[k.uid][a] \in Int /\ k.obs[a] \in Int /\ LeaseMax \in Int
          BY <1>1, <3>1, TimeAssumption DEF IInv, TypeOK
        <4>3. ASSUME NEW e \in Int, NEW v \in Int, NEW l \in Int,
                     e <= v + LeaseMax, v <= l
              PROVE  e <= l + LeaseMax
          BY <4>2, <4>3
        <4>. QED
          <5>. HIDE DEF k
          <5>. QED BY <2>2, <3>2, <4>1, <4>2, <4>3
      <3>. QED BY <3>3, <3>4
    <2>. QED BY <2>1, <2>2, <2>3 DEF EntrySound, LeaseSound
  <1>. QED BY <1>3 DEF SubsSound

\* Before its account is bound a connection has anonymous subscriptions only.
LEMMA OwnerMoves ==
    ASSUME IInv, NEW c \in Conn, NEW u \in Uid, owner[c] \in {NoUid, u}
    PROVE  SubsSound(registry[c], u)
  <1>1. SubsSound(registry[c], owner[c]) /\ IsSubscriptions(registry[c])
    BY DEF IInv, RegistrySound, TypeOK, RegistryOK
  <1>2. ASSUME NEW t \in DOMAIN registry[c] PROVE EntrySound(registry[c][t], u, t)
    <2>1. registry[c][t] \in Lease \cup {NoLease}
      BY <1>1 DEF IsSubscriptions
    <2>. QED BY <1>1, <2>1, NoneAssumption DEF SubsSound, EntrySound, Lease
  <1>. QED BY <1>2 DEF SubsSound

\* Settling a request: the denied partition leaves, the leases of the rest are
\* sound, whatever was registered before.
LEMMA SettleSound ==
    ASSUME IInv, NEW c \in Conn, NEW denied \in SUBSET Topic, Settle(c, denied),
           task[c].phase \in AuthPhase,
           owner[c] \in {NoUid, task[c].uid}, owner'[c] = task[c].uid,
           UNCHANGED <<clock, held, lostAt>>,
           \A d \in Conn \ {c} : owner'[d] = owner[d],
           \A t \in Authorizable(task[c].topics) \ denied :
               RequiredAxes(t) \subseteq Confirmed(task[c])
    PROVE  RequestsSound' /\ RegistrySound' /\ NoGhostSubscriber'
  <1> DEFINE u == task[c].uid
             accepted == Authorizable(task[c].topics) \ denied
             new == [t \in accepted |->
                        [uid |-> u, expires |-> LeaseExpiry(t, task[c].obs, clock)]]
             after == Registered(Unregistered(registry[c], denied), new)
             acked == [At("ack") EXCEPT !.topics = accepted,
                                        !.rejected = Refused(c) \cup denied,
                                        !.active = DOMAIN after]
  <1>1. u \in Uid /\ task[c] \in Task
    BY TaskTyped DEF IInv
  <1>2. registry' = [registry EXCEPT ![c] = after]
        /\ task' = [task EXCEPT ![c] = acked]
    BY DEF Settle
  <1>3. accepted \in SUBSET Topic
    BY <1>1 DEF Authorizable, Task
  <1>4. SubsSound(new, u)
    BY <1>3, NewLeasesSound
  <1>5. SubsSound(Unregistered(registry[c], denied), u)
    <2>1. SubsSound(registry[c], u)
      BY <1>1, OwnerMoves
    <2>. HIDE DEF u
    <2>. QED BY <2>1, UnregisteredSound
  <1>6. SubsSound(after, u)
    <2>. HIDE DEF new, u
    <2>. QED BY <1>4, <1>5, RegisteredSound
  <1>7. RegistrySound'
    <2>. HIDE DEF after
    <2>. QED BY <1>2, <1>6, SubsMove
  <1>8. acked.phase = "ack"
    BY DEF At
  <1>9. task'[c] = acked /\ \A d \in Conn \ {c} : task'[d] = task[d]
    BY <1>2 DEF IInv, TypeOK, TaskOK
  <1>10. RequestsSound'
    <2>. HIDE DEF acked
    <2>1. ASSUME NEW d \in Conn PROVE RequestSound(task[d], owner[d])'
      <3>1. CASE d = c
        BY <1>8, <1>9, <3>1 DEF RequestSound, AuthPhase
      <3>2. CASE d # c
        BY <1>9, <3>2 DEF IInv, RequestsSound, RequestSound, Confirmed, Observed
      <3>. QED BY <3>1, <3>2
    <2>. QED BY <2>1 DEF RequestsSound
  <1>11. NoGhostSubscriber'
    <2>1. \A d \in Conn \ {c} : registry'[d] = registry[d]
      <3>. HIDE DEF after
      <3>. QED BY <1>2 DEF IInv, TypeOK, RegistryOK
    <2>. HIDE DEF acked
    <2>. QED BY <1>2, <1>8, <2>1, GhostFree
  <1>. QED BY <1>7, <1>10, <1>11

LEMMA MessageSound ==
    ASSUME IInv, NEW c \in Conn, Message(c)
    PROVE  RequestsSound' /\ RegistrySound' /\ NoGhostSubscriber'
  <1>0. UNCHANGED <<clock, held, lostAt, owner>>
    BY DEF Message, AnonymousSubscribe, Subscribe, Unsubscribe
  <1>1. SubsSound(registry[c], owner[c]) /\ clock \in Nat
    BY TaskTyped DEF IInv, RegistrySound
  <1>2. ASSUME NEW ts \in SUBSET Topic, AnonymousSubscribe(c, ts)
        PROVE  RequestsSound' /\ RegistrySound' /\ NoGhostSubscriber'
    <2> DEFINE free == [t \in FreeTopics(ts) |-> NoLease]
               after == Registered(registry[c], free)
               new == [At("build") EXCEPT !.topics = FreeTopics(ts)]
    <2>1. SubsSound(free, owner[c])
      BY FreeLemma DEF SubsSound, EntrySound
    <2>2. SubsSound(after, owner[c])
      <3>. HIDE DEF free
      <3>. QED BY <1>1, <2>1, RegisteredSound
    <2>3. registry' = [registry EXCEPT ![c] = after] /\ task' = [task EXCEPT ![c] = new]
      BY <1>2 DEF AnonymousSubscribe, IInv, TypeOK, RegistryOK
    <2>4. new \in Task /\ new.phase = "build"
      BY FreeSubsetLemma, BuildTyped
    <2>5. RegistrySound'
      <3>. HIDE DEF after
      <3>. QED BY <1>0, <2>2, <2>3, SubsMove
    <2>6. RequestsSound'
      <3>. HIDE DEF new
      <3>1. RequestSound(new, owner[c])
        BY <2>4 DEF RequestSound, AuthPhase
      <3>. QED BY <1>0, <2>3, <2>4, <3>1, RequestMoves
    <2>7. NoGhostSubscriber'
      <3>1. \A d \in Conn \ {c} : registry'[d] = registry[d]
        BY <1>2 DEF AnonymousSubscribe, IInv, TypeOK, RegistryOK
      <3>. HIDE DEF new
      <3>. QED BY <2>3, <2>4, <3>1, GhostFree
    <2>. QED BY <2>5, <2>6, <2>7
  <1>3. ASSUME NEW ts \in SUBSET Topic, NEW u \in Uid, Subscribe(c, u, ts)
        PROVE  RequestsSound' /\ RegistrySound' /\ NoGhostSubscriber'
    <2> DEFINE new == [At("identity") EXCEPT !.uid = u, !.topics = ts,
                                             !.obs["identity"] = clock]
    <2>1. task' = [task EXCEPT ![c] = new] /\ registry' = registry
      BY <1>3 DEF Subscribe
    <2>2. new \in Task
      <3>1. At("identity") \in Task
        BY AtTyped DEF Phase, AuthPhase
      <3>. QED BY <1>1, <3>1 DEF Task
    <2>3. /\ new.phase = "identity" /\ new.verdict = "pending" /\ new.uid = u
          /\ \A a \in Axis : new.obs[a] = IF a = "identity" THEN clock ELSE 0
      BY DEF At, NoObs, Axis
    <2>4. RequestSound(new, owner[c])
      <3>. HIDE DEF new
      <3>1. Confirmed(new) = {}
        BY <2>3 DEF Confirmed
      <3>. QED BY <1>1, <2>3, <3>1 DEF RequestSound
    <2>5. RequestsSound' /\ NoGhostSubscriber'
      <3>. HIDE DEF new
      <3>. QED BY <1>0, <2>1, <2>2, <2>3, <2>4, RequestMoves, GhostFree
    <2>6. RegistrySound'
      <3>1. ASSUME NEW d \in Conn PROVE SubsSound(registry[d], owner[d])'
        BY <1>0, <2>1, SoundFrame DEF IInv, RegistrySound
      <3>. QED BY <3>1 DEF RegistrySound
    <2>. QED BY <2>5, <2>6
  <1>4. ASSUME NEW ts \in SUBSET Topic, Unsubscribe(c, ts)
        PROVE  RequestsSound' /\ RegistrySound' /\ NoGhostSubscriber'
    <2> DEFINE r == Unregistered(registry[c], ts)
    <2>1. registry' = [registry EXCEPT ![c] = r]
          /\ \A d \in Conn \ {c} : registry'[d] = registry[d]
      BY <1>4 DEF Unsubscribe, IInv, TypeOK, RegistryOK
    <2>2. RegistrySound'
      BY <1>0, <1>1, <2>1, UnregisteredSound, SubsMove
    <2>3. At("removed") \in Task /\ At("removed").phase = "removed"
      BY AtTyped DEF Phase
    <2>4. CASE task' = task
      <3>1. RequestsSound'
        BY <1>0, <2>4, RequestFrame DEF IInv, RequestsSound
      <3>2. NoGhostSubscriber'
        <4>1. ASSUME NEW d \in Conn, task[d].phase \in {"absent", "ended"}
              PROVE  DOMAIN registry'[d] = {}
          <5>1. d # c
            BY <1>4, <4>1 DEF Unsubscribe, Receives
          <5>. QED BY <2>1, <4>1, <5>1 DEF IInv, NoGhostSubscriber, Subs
        <4>. QED BY <2>4, <4>1 DEF NoGhostSubscriber, Subs
      <3>. QED BY <2>2, <3>1, <3>2
    <2>5. CASE task' = [task EXCEPT ![c] = At("removed")]
      <3>1. RequestSound(At("removed"), owner[c])
        BY <2>3 DEF RequestSound, AuthPhase
      <3>. QED BY <1>0, <2>1, <2>2, <2>3, <2>5, <3>1, RequestMoves, GhostFree
    <2>. QED BY <1>4, <2>4, <2>5 DEF Unsubscribe
  <1>. QED BY <1>2, <1>3, <1>4 DEF Message

\* The registry is untouched and the coroutine that moved is sound.
LEMMA MoveSound ==
    ASSUME IInv, NEW c \in Conn, NEW new \in Task, RequestSound(new, owner'[c]),
           new.phase \notin {"absent", "ended"},
           task' = [task EXCEPT ![c] = new],
           owner[c] \in {NoUid, owner'[c]}, owner'[c] \in Uid \/ owner'[c] = owner[c],
           UNCHANGED <<clock, held, lostAt, registry>>,
           \A d \in Conn \ {c} : owner'[d] = owner[d]
    PROVE  RequestsSound' /\ RegistrySound' /\ NoGhostSubscriber'
  <1>1. RequestsSound'
    BY RequestMoves
  <1>2. NoGhostSubscriber'
    BY GhostFree
  <1>3. ASSUME NEW d \in Conn PROVE SubsSound(registry[d], owner[d])'
    <2>1. SubsSound(registry[d], owner[d])
      BY DEF IInv, RegistrySound
    <2>2. SubsSound(registry[d], owner'[d])
      BY <2>1, OwnerMoves
    <2>. QED BY <2>2, SoundFrame
  <1>. QED BY <1>1, <1>2, <1>3 DEF RegistrySound

\* A phase outside the authorisation carries no obligation.
LEMMA QuietSound ==
    ASSUME IInv, NEW c \in Conn, NEW new \in Task,
           new.phase \notin AuthPhase \cup {"absent", "ended"},
           task' = [task EXCEPT ![c] = new],
           UNCHANGED <<clock, held, lostAt, registry, owner>>
    PROVE  RequestsSound' /\ RegistrySound' /\ NoGhostSubscriber'
  <1>1. RequestSound(new, owner'[c])
    BY DEF RequestSound
  <1>. QED BY <1>1, MoveSound

LEMMA AuthorisationSound ==
    ASSUME IInv, NEW c \in Conn, Authorisation(c)
    PROVE  RequestsSound' /\ RegistrySound' /\ NoGhostSubscriber'
  <1>0. /\ task[c] \in Task /\ clock \in Nat /\ task = [d \in Conn |-> task[d]]
        /\ owner \in [Conn -> Uid \cup {NoUid}]
        /\ RequestSound(task[c], owner[c])
        /\ UNCHANGED <<clock, held, lostAt>>
    BY TaskTyped
       DEF IInv, TypeOK, TaskOK, RequestsSound, Authorisation, AuthorityDecides,
           EntitlementWorkerStarts, Inconclusive, AuthDeadline, Unclassified,
           IdentityGranted, IdentityConflict, PremiumGranted, PremiumDenied,
           EntitlementGranted, EntitlementDenied
  <1>1. CASE AuthorityDecides(c)
    <2>1. PICK v \in Verdict :
              /\ task' = [task EXCEPT ![c].verdict = v]
              /\ v = "granted" => held[task[c].uid][task[c].phase]
      BY <1>1 DEF AuthorityDecides, Verdict
    <2> DEFINE new == [task[c] EXCEPT !.verdict = v]
    <2>2. new \in Task /\ new.phase = task[c].phase /\ new.uid = task[c].uid
          /\ new.obs = task[c].obs /\ new.verdict = v
      BY <1>0 DEF Task
    <2>3. task' = [task EXCEPT ![c] = new]
      BY <1>0, <2>1
    <2>4. RequestSound(new, owner[c])
      <3>. HIDE DEF new
      <3>1. task[c].phase \in AuthPhase \cap Axis
        BY <1>1 DEF AuthorityDecides, AuthPhase, Axis
      <3>2. ASSUME NEW a \in Confirmed(new) PROVE Observed(new.uid, a, new.obs[a])
        <4>1. CASE a = task[c].phase /\ v = "granted"
          BY <1>0, <2>1, <2>2, <3>1, <4>1 DEF RequestSound, Observed
        <4>2. CASE ~(a = task[c].phase /\ v = "granted")
          BY <1>0, <2>2, <3>1, <4>2 DEF RequestSound, Confirmed
        <4>. QED BY <4>1, <4>2
      <3>3. task[c].phase # "worker"
        BY <3>1 DEF Axis
      <3>. QED BY <1>0, <2>2, <3>1, <3>2, <3>3 DEF RequestSound
    <2>5. /\ new.phase \notin {"absent", "ended"}
          /\ UNCHANGED <<registry, owner>>
      BY <1>1, <2>2 DEF AuthorityDecides, Axis
    <2>. HIDE DEF new
    <2>. QED BY <1>0, <2>2, <2>3, <2>4, <2>5, MoveSound
  <1>2. CASE EntitlementWorkerStarts(c)
    <2> DEFINE new == [task[c] EXCEPT !.phase = "entitlement",
                                      !.obs["entitlement"] = clock]
    <2>1. task' = [task EXCEPT ![c] = new] /\ UNCHANGED <<registry, owner>>
      BY <1>0, <1>2 DEF EntitlementWorkerStarts
    <2>2. /\ new \in Task /\ new.phase = "entitlement" /\ new.uid = task[c].uid
          /\ new.verdict = task[c].verdict
          /\ \A a \in Axis : new.obs[a] = IF a = "entitlement" THEN clock
                                          ELSE task[c].obs[a]
      BY <1>0 DEF Task, Phase, AuthPhase, Axis
    <2>3. RequestSound(new, owner[c])
      <3>. HIDE DEF new
      <3>1. task[c].phase = "worker"
        BY <1>2 DEF EntitlementWorkerStarts
      <3>2. /\ \A a \in Axis : task[c].obs[a] <= clock
            /\ \A a \in {"identity", "premium"} :
                   Observed(task[c].uid, a, task[c].obs[a])
            /\ owner[c] = task[c].uid /\ task[c].uid \in Uid
            /\ task[c].verdict = "pending"
        BY <1>0, <3>1 DEF RequestSound, AuthPhase, Confirmed
      <3>3. \A a \in Axis : new.obs[a] <= clock
        BY <1>0, <2>2, <3>2
      <3>4. ASSUME NEW a \in Confirmed(new) PROVE Observed(new.uid, a, new.obs[a])
        BY <2>2, <3>2, <3>4 DEF Confirmed, Axis
      <3>. QED BY <2>2, <3>2, <3>3, <3>4 DEF RequestSound
    <2>. HIDE DEF new
    <2>. QED BY <1>0, <2>1, <2>2, <2>3, MoveSound
  <1>3. CASE Inconclusive(c) \/ AuthDeadline(c)
    <2>1. At("error") \in Task /\ At("error").phase = "error"
      BY AtTyped DEF Phase
    <2>2. /\ task' = [task EXCEPT ![c] = At("error")] /\ UNCHANGED <<registry, owner>>
      BY <1>3 DEF Inconclusive, AuthDeadline
    <2>. QED BY <1>0, <2>1, <2>2, QuietSound DEF AuthPhase
  <1>4. CASE Unclassified(c)
    BY <1>0, <1>4, EndsSound DEF Unclassified
  <1>5. CASE IdentityConflict(c)
    <2>1. At("closing") \in Task /\ At("closing").phase = "closing"
      BY AtTyped DEF Phase
    <2>. QED BY <1>0, <1>5, <2>1, QuietSound DEF IdentityConflict, AuthPhase
  <1>6. ASSUME NEW t \in Topic
        PROVE  /\ "premium" \notin RequiredAxes(t) => RequiredAxes(t) = {"identity"}
               /\ "entitlement" \notin RequiredAxes(t)
                      => RequiredAxes(t) \subseteq {"identity", "premium"}
    BY DEF RequiredAxes, Axis
  <1>7. Authorizable(task[c].topics) \in SUBSET Topic
        /\ PremiumPart(task[c].topics) \in SUBSET Topic
        /\ EntitlementPart(task[c].topics) \in SUBSET Topic
    BY <1>0 DEF PremiumPart, EntitlementPart, Authorizable, Task
  <1>8. CASE IdentityGranted(c)
    <2>1. /\ task[c].phase = "identity" /\ task[c].verdict = "granted"
          /\ task[c].uid \in Uid /\ owner[c] \in {NoUid, task[c].uid}
          /\ owner'[c] = task[c].uid
          /\ \A d \in Conn \ {c} : owner'[d] = owner[d]
      BY <1>0, <1>8 DEF IdentityGranted, Bindable, RequestSound, AuthPhase
    <2>2. "identity" \in Confirmed(task[c])
      BY <2>1 DEF Confirmed, Axis
    <2>3. CASE PremiumPart(task[c].topics) = {}
      <3>1. Settle(c, {})
        BY <1>8, <2>3 DEF IdentityGranted
      <3>2. \A t \in Authorizable(task[c].topics) \ {} :
               RequiredAxes(t) \subseteq Confirmed(task[c])
        BY <1>6, <1>7, <2>2, <2>3 DEF PremiumPart
      <3>. QED BY <1>0, <2>1, <3>1, <3>2, SettleSound DEF AuthPhase
    <2>4. CASE PremiumPart(task[c].topics) # {}
      <3> DEFINE new == [task[c] EXCEPT !.phase = "premium", !.verdict = "pending",
                                        !.obs["premium"] = clock]
      <3>1. task' = [task EXCEPT ![c] = new] /\ UNCHANGED registry
        BY <1>0, <1>8, <2>4 DEF IdentityGranted
      <3>2. /\ new \in Task /\ new.phase = "premium" /\ new.uid = task[c].uid
            /\ new.verdict = "pending"
            /\ \A a \in Axis : new.obs[a] = IF a = "premium" THEN clock
                                            ELSE task[c].obs[a]
        BY <1>0 DEF Task, Phase, AuthPhase, Axis, Verdict
      <3>3. RequestSound(new, owner'[c])
        <4>. HIDE DEF new
        <4>1. /\ \A a \in Axis : task[c].obs[a] <= clock
              /\ Observed(task[c].uid, "identity", task[c].obs["identity"])
          BY <1>0, <2>1, <2>2 DEF RequestSound, AuthPhase
        <4>2. Confirmed(new) = {"identity"}
          BY <3>2 DEF Confirmed
        <4>. QED BY <1>0, <2>1, <3>2, <4>1, <4>2 DEF RequestSound, Axis
      <3>. HIDE DEF new
      <3>. QED BY <1>0, <2>1, <3>1, <3>2, <3>3, MoveSound
    <2>. QED BY <2>3, <2>4
  <1>9. ASSUME task[c].phase \in {"premium", "entitlement"}, UNCHANGED owner
        PROVE  /\ task[c].phase \in AuthPhase /\ task[c].uid \in Uid
               /\ owner[c] = task[c].uid /\ owner'[c] = task[c].uid
               /\ "identity" \in Confirmed(task[c])
    BY <1>0, <1>9 DEF RequestSound, AuthPhase, Confirmed
  <1>10. CASE PremiumGranted(c)
    <2>1. /\ task[c].phase = "premium" /\ task[c].verdict = "granted"
          /\ UNCHANGED owner
      BY <1>10 DEF PremiumGranted
    <2>2. "premium" \in Confirmed(task[c])
      BY <2>1 DEF Confirmed, Axis
    <2>3. CASE EntitlementPart(task[c].topics) = {}
      <3>1. Settle(c, {})
        BY <1>10, <2>3 DEF PremiumGranted
      <3>2. \A t \in Authorizable(task[c].topics) \ {} :
               RequiredAxes(t) \subseteq Confirmed(task[c])
        BY <1>6, <1>7, <1>9, <2>1, <2>2, <2>3 DEF EntitlementPart
      <3>. QED BY <1>0, <1>9, <2>1, <3>1, <3>2, SettleSound
    <2>4. CASE EntitlementPart(task[c].topics) # {}
      <3> DEFINE new == [task[c] EXCEPT !.phase = "worker", !.verdict = "pending"]
      <3>1. task' = [task EXCEPT ![c] = new] /\ UNCHANGED registry
        BY <1>0, <1>10, <2>4 DEF PremiumGranted
      <3>2. /\ new \in Task /\ new.phase = "worker" /\ new.uid = task[c].uid
            /\ new.verdict = "pending" /\ new.obs = task[c].obs
        BY <1>0 DEF Task, Phase, AuthPhase, Verdict
      <3>3. RequestSound(new, owner'[c])
        <4>. HIDE DEF new
        <4>1. Confirmed(new) = {"identity", "premium"}
          BY <3>2 DEF Confirmed, Axis
        <4>. QED BY <1>0, <1>9, <2>1, <2>2, <3>2, <4>1 DEF RequestSound
      <3>. HIDE DEF new
      <3>. QED BY <1>0, <1>9, <2>1, <3>1, <3>2, <3>3, MoveSound
    <2>. QED BY <2>3, <2>4
  <1>11. CASE PremiumDenied(c)
    <2>1. /\ task[c].phase = "premium" /\ UNCHANGED owner
          /\ Settle(c, PremiumPart(task[c].topics))
      BY <1>11 DEF PremiumDenied
    <2>2. \A t \in Authorizable(task[c].topics) \ PremiumPart(task[c].topics) :
             RequiredAxes(t) \subseteq Confirmed(task[c])
      BY <1>6, <1>7, <1>9, <2>1 DEF PremiumPart
    <2>. QED BY <1>0, <1>7, <1>9, <2>1, <2>2, SettleSound
  <1>12. CASE EntitlementGranted(c)
    <2>1. /\ task[c].phase = "entitlement" /\ task[c].verdict = "granted"
          /\ UNCHANGED owner /\ Settle(c, {})
      BY <1>12 DEF EntitlementGranted
    <2>2. Confirmed(task[c]) = Axis
      BY <2>1 DEF Confirmed, Axis
    <2>. QED BY <1>0, <1>9, <2>1, <2>2, AxesLemma, SettleSound
  <1>13. CASE EntitlementDenied(c)
    <2>1. /\ task[c].phase = "entitlement" /\ UNCHANGED owner
          /\ Settle(c, EntitlementPart(task[c].topics))
      BY <1>13 DEF EntitlementDenied
    <2>2. {"identity", "premium"} \subseteq Confirmed(task[c])
      BY <2>1 DEF Confirmed
    <2>3. \A t \in Authorizable(task[c].topics) \ EntitlementPart(task[c].topics) :
             RequiredAxes(t) \subseteq Confirmed(task[c])
      BY <1>6, <1>7, <2>2 DEF EntitlementPart
    <2>. QED BY <1>0, <1>7, <1>9, <2>1, <2>3, SettleSound
  <1>. QED
    BY <1>1, <1>2, <1>3, <1>4, <1>5, <1>8, <1>10, <1>11, <1>12, <1>13 DEF Authorisation

LEMMA DeliverySound ==
    ASSUME IInv, NEW c \in Conn, Delivery(c)
    PROVE  RequestsSound' /\ RegistrySound' /\ NoGhostSubscriber'
  <1>0. /\ task[c] \in Task /\ task = [d \in Conn |-> task[d]]
        /\ UNCHANGED <<clock, held, lostAt, owner>>
    BY TaskTyped
       DEF IInv, TypeOK, TaskOK, Delivery, FrameSent, FrameFails, SnapshotBuilt,
           SnapshotSent, SnapshotFails
  <1>1. ASSUME NEW t
        PROVE  /\ Rest(c, t) \in Task
               /\ Rest(c, t).phase \notin AuthPhase \cup {"absent", "ended"}
    <2>1. Rest(c, t).phase \in {"idle", "build"}
      BY DEF Rest, At
    <2>. QED BY <2>1, RestTyped DEF IInv
  <1>2. CASE FrameSent(c)
    <2>1. PICK new \in {At("idle"), [At("build") EXCEPT !.topics = task[c].topics]} :
              task' = [task EXCEPT ![c] = new]
      BY <1>2 DEF FrameSent, Returns
    <2>2. new \in Task /\ new.phase \in {"idle", "build"}
      BY <1>0, <2>1, AtTyped, BuildTyped DEF Task, Phase
    <2>3. new.phase \notin AuthPhase \cup {"absent", "ended"}
      BY <2>2 DEF AuthPhase
    <2>4. UNCHANGED registry
      BY <1>2 DEF FrameSent
    <2>. QED BY <1>0, <2>1, <2>2, <2>3, <2>4, QuietSound
  <1>3. CASE FrameFails(c) \/ SnapshotFails(c)
    BY <1>0, <1>3, EndsSound DEF FrameFails, SnapshotFails
  <1>4. ASSUME NEW t \in Topic, SnapshotBuilt(c, t)
        PROVE  RequestsSound' /\ RegistrySound' /\ NoGhostSubscriber'
    <2> DEFINE new == [task[c] EXCEPT !.phase = "send", !.cur = {t}]
    <2>1. new \in Task /\ new.phase = "send"
      BY <1>0 DEF Task, Phase
    <2>2. task' = [task EXCEPT ![c] = new] \/ task' = [task EXCEPT ![c] = Rest(c, t)]
      BY <1>0, <1>4 DEF SnapshotBuilt
    <2>3. UNCHANGED registry /\ "send" \notin AuthPhase
      BY <1>4 DEF SnapshotBuilt, AuthPhase
    <2>. HIDE DEF new
    <2>. QED BY <1>0, <1>1, <2>1, <2>2, <2>3, QuietSound
  <1>5. CASE SnapshotSent(c)
    <2>1. PICK t : task' = [task EXCEPT ![c] = Rest(c, t)]
      BY <1>5 DEF SnapshotSent
    <2>2. UNCHANGED registry
      BY <1>5 DEF SnapshotSent
    <2>. QED BY <1>0, <1>1, <2>1, <2>2, QuietSound
  <1>. QED BY <1>2, <1>3, <1>4, <1>5 DEF Delivery

LEMMA PublishSound ==
    ASSUME IInv, NEW p \in Publisher, Publish(p)
    PROVE  RequestsSound' /\ RegistrySound' /\ NoGhostSubscriber'
  <1>1. UNCHANGED <<clock, held, lostAt, owner, task>>
    BY DEF Publish, PublishBegins, PublishSends, PublishEnds
  <1>2. PICK cs : RemoveWebsocket(cs)
    <2>1. CASE UNCHANGED registry
      <3>1. RemoveWebsocket({})
        BY <2>1 DEF RemoveWebsocket, IInv, TypeOK, RegistryOK
      <3>. QED BY <3>1
    <2>. QED BY <2>1 DEF Publish, PublishBegins, PublishSends, PublishEnds
  <1>3. RequestsSound'
    BY <1>1, RequestFrame DEF IInv, RequestsSound
  <1>4. RegistrySound'
    BY <1>1, <1>2, RemoveSound
  <1>5. NoGhostSubscriber'
    BY <1>1, <1>2 DEF IInv, NoGhostSubscriber, Subs, RemoveWebsocket, NoSubscription
  <1>. QED BY <1>3, <1>4, <1>5

-----------------------------------------------------------------------------
(* The theorems                                                             *)

LEMMA InvInit == Init => IInv
  <1>. SUFFICES ASSUME Init PROVE IInv
    OBVIOUS
  <1>1. TypeOK
    BY TypeInit
  <1>2. RequestsSound
    BY DEF Init, RequestsSound, RequestSound, At, AuthPhase
  <1>3. RegistrySound
    BY EmptySound DEF Init, RegistrySound
  <1>4. NoGhostSubscriber
    BY DEF Init, NoGhostSubscriber, Subs, NoSubscription
  <1>. QED BY <1>1, <1>2, <1>3, <1>4 DEF IInv

LEMMA InvStep == IInv /\ [Next]_vars => IInv'
  <1>. SUFFICES ASSUME IInv, [Next]_vars PROVE IInv'
    OBVIOUS
  <1>0. TypeOK'
    BY TypeStep DEF IInv
  <1>1. CASE UNCHANGED vars
    <2>1. RequestsSound'
      BY <1>1, RequestFrame DEF vars, IInv, RequestsSound
    <2>2. RegistrySound'
      BY <1>1, SoundFrame DEF vars, IInv, RegistrySound
    <2>3. NoGhostSubscriber'
      BY <1>1 DEF vars, IInv, NoGhostSubscriber, Subs
    <2>. QED BY <1>0, <2>1, <2>2, <2>3 DEF IInv
  <1>2. ASSUME NEW c \in Conn, Connects(c) PROVE IInv'
    <2>1. At("idle") \in Task /\ At("idle").phase = "idle"
      BY AtTyped DEF Phase
    <2>. QED BY <1>0, <1>2, <2>1, QuietSound DEF Connects, IInv, AuthPhase
  <1>3. ASSUME NEW c \in Conn, EndpointEnds(c) PROVE IInv'
    BY <1>0, <1>3, EndsSound DEF EndpointEnds, IInv
  <1>. QED
    BY <1>0, <1>1, <1>2, <1>3, WorldSound, MessageSound, AuthorisationSound,
       DeliverySound, PublishSound DEF Next, IInv

LEMMA Invariance == Spec => []IInv
  BY InvInit, InvStep, PTL DEF Spec

\* However long the verifications of a subscribe take, whichever right is lost
\* during or after them, and in whatever order the answers, evictions and
\* renewals come: a live lease belongs to an account that had every right its
\* topic needs less than LEASE_MAX ago.
THEOREM RevocationBounded == Spec => []RevocationBound
  <1>1. ASSUME NEW u \in Uid, NEW t, NEW e \in Int, TypeOK, LeaseSound(u, t, e), clock < e
        PROVE  RecentlyEntitled(u, t)
    <2>1. clock \in Int /\ LeaseMax \in Int /\ lostAt \in [Uid -> [Axis -> Int]]
      BY <1>1, TimeAssumption DEF TypeOK
    <2>2. ASSUME NEW a \in RequiredAxes(t)
          PROVE  held[u][a] \/ clock < lostAt[u][a] + LeaseMax
      <3>1. a \in Axis
        BY AxesLemma
      <3>2. held[u][a] \/ e <= lostAt[u][a] + LeaseMax
        BY <1>1 DEF LeaseSound
      <3>. QED BY <1>1, <2>1, <3>1, <3>2
    <2>. QED BY <2>2 DEF RecentlyEntitled
  <1>2. ASSUME IInv, NEW c \in Conn, NEW t \in DOMAIN registry[c],
               registry[c][t] # NoLease, ~IsExpired(clock, registry[c][t])
        PROVE  RecentlyEntitled(registry[c][t].uid, t)
    <2>1. registry[c][t] \in Lease /\ clock \in Int
      BY <1>2 DEF IInv, TypeOK, RegistryOK, IsSubscriptions
    <2>2. LeaseSound(registry[c][t].uid, t, registry[c][t].expires)
      BY <1>2 DEF IInv, RegistrySound, SubsSound, EntrySound
    <2>3. registry[c][t].uid \in Uid /\ registry[c][t].expires \in Int
      BY <2>1 DEF Lease
    <2>4. clock < registry[c][t].expires
      BY <1>2, <2>1, <2>3 DEF IsExpired
    <2>. QED BY <1>1, <1>2, <2>2, <2>3, <2>4 DEF IInv
  <1>3. IInv => RevocationBound
    BY <1>2 DEF RevocationBound, Leased, Subs
  <1>. QED BY <1>3, Invariance, PTL

\* An unlimited subscription exists only for a topic that anonymous clients may
\* have at this rollout stage, whatever was requested, denied or unregistered.
THEOREM AnonymousBounded == Spec => []AnonymousOnlyWhereFree
  <1>1. IInv => AnonymousOnlyWhereFree
    BY TopicAssumption
       DEF IInv, RegistrySound, SubsSound, EntrySound, AnonymousOnlyWhereFree, Subs,
           FreeTopics, OpenToAll, RequiredAxes, Stages, Axis
  <1>. QED BY <1>1, Invariance, PTL

\* Every lease of a connection was issued to the account bound to it.
THEOREM OwnersNeverMix == Spec => []OneOwner
  <1>1. IInv => OneOwner
    BY DEF IInv, RegistrySound, SubsSound, EntrySound, OneOwner, Leased, Subs
  <1>. QED BY <1>1, Invariance, PTL

\* Whoever evicted it and however late its handler registered, a connection
\* whose endpoint has ended is out of the registry.
THEOREM EndedIsUnregistered == Spec => []NoGhostSubscriber
  <1>1. IInv => NoGhostSubscriber
    BY DEF IInv
  <1>. QED BY <1>1, Invariance, PTL

-----------------------------------------------------------------------------
(* What a step does to a connection                                          *)

\* The axes whose observation the request of coroutine k has taken.
Asked(k) ==
    CASE k.phase = "identity" -> {"identity"}
      [] k.phase \in {"premium", "worker"} -> {"identity", "premium"}
      [] k.phase = "entitlement" -> Axis
      [] OTHER -> {}

\* The connection loses subscriptions at most.
Keeps(c) ==
    \A t \in DOMAIN registry'[c] :
        t \in DOMAIN registry[c] /\ registry'[c][t] = registry[c][t]

\* A coroutine that goes from k to new has taken its observations now or before.
Observes(k, new) ==
    \A a \in Asked(new) :
        \/ new.obs[a] = clock
        \/ a \in Asked(k) /\ new.obs[a] = k.obs[a]

\* The coroutine goes on, and writes no acknowledgement.
Moves(c) ==
    /\ task'[c].phase = "ack" => task'[c] = task[c]
    /\ Observes(task[c], task'[c])

\* The request settles with an observation of every axis that what it accepts needs.
Settles(c, denied) ==
    /\ Settle(c, denied)
    /\ \A t \in Authorizable(task[c].topics) \ denied :
          RequiredAxes(t) \subseteq Asked(task[c])

\* What a step may do to a connection.
Handled(c) ==
    \/ Moves(c) /\ Keeps(c)
    \/ \E ts \in SUBSET Topic : AnonymousSubscribe(c, ts)
    \/ \E denied \in SUBSET Topic : Settles(c, denied)

\* What stays is kept.
LEMMA StaysLemma ==
    ASSUME NEW c, UNCHANGED <<task[c], registry[c]>>
    PROVE  Handled(c)
  BY DEF Handled, Moves, Observes, Keeps, Asked

\* A coroutine that leaves the authorisation takes no observation.
LEMMA LeavesLemma ==
    ASSUME IInv, NEW c \in Conn, NEW new, new.phase \notin AuthPhase \cup {"ack"},
           task' = [task EXCEPT ![c] = new], NEW d \in Conn, Keeps(d)
    PROVE  Handled(d)
  <1>1. task'[c] = new /\ \A e \in Conn \ {c} : task'[e] = task[e]
    BY DEF IInv, TypeOK, TaskOK
  <1>2. CASE d = c
    <2>1. Asked(task'[d]) = {} /\ task'[d].phase # "ack"
      BY <1>1, <1>2 DEF Asked, AuthPhase
    <2>. QED BY <2>1 DEF Handled, Moves, Observes
  <1>3. CASE d # c
    BY <1>1, <1>3 DEF Handled, Moves, Observes
  <1>. QED BY <1>2, <1>3

\* An eviction takes subscriptions and gives none.
LEMMA RemovesLemma ==
    ASSUME NEW cs, RemoveWebsocket(cs), NEW d \in Conn
    PROVE  Keeps(d)
  BY DEF RemoveWebsocket, Keeps, NoSubscription

\* The end of an endpoint.
LEMMA EndsHandled ==
    ASSUME IInv, NEW c \in Conn, Ends(c) \/ EvictsAndCloses(c), NEW d \in Conn
    PROVE  Handled(d)
  <1>1. At("ended").phase = "ended" /\ At("closing").phase = "closing"
    BY AtTyped DEF Phase
  <1>2. PICK new \in {At("ended"), At("closing")} : task' = [task EXCEPT ![c] = new]
    BY DEF Ends, EvictsAndCloses
  <1>3. Keeps(d)
    BY RemovesLemma DEF Ends, EvictsAndCloses
  <1>. QED BY <1>1, <1>2, <1>3, LeavesLemma DEF AuthPhase

\* The steps of one coroutine leave the other connections as they are.
LEMMA OthersLemma ==
    ASSUME IInv, NEW c \in Conn, NEW new, NEW r,
           task' = [task EXCEPT ![c] = new], registry' = [registry EXCEPT ![c] = r],
           NEW d \in Conn, d # c
    PROVE  Handled(d)
  <1>1. task'[d] = task[d] /\ registry'[d] = registry[d]
    BY DEF IInv, TypeOK, TaskOK, RegistryOK
  <1>. QED BY <1>1, StaysLemma

\* A message, whichever it is.
LEMMA MessageHandled ==
    ASSUME IInv, NEW c \in Conn, Message(c), NEW d \in Conn
    PROVE  Handled(d)
  <1>0. task = [e \in Conn |-> task[e]] /\ registry = [e \in Conn |-> registry[e]]
    BY DEF IInv, TypeOK, TaskOK, RegistryOK
  <1>1. ASSUME NEW ts \in SUBSET Topic, AnonymousSubscribe(c, ts)
        PROVE  Handled(d)
    <2>1. CASE d = c
      BY <1>1, <2>1 DEF Handled
    <2>2. CASE d # c
      BY <1>0, <1>1, <2>2, OthersLemma DEF AnonymousSubscribe
    <2>. QED BY <2>1, <2>2
  <1>2. ASSUME NEW ts \in SUBSET Topic, NEW u \in Uid, Subscribe(c, u, ts)
        PROVE  Handled(d)
    <2> DEFINE new == [At("identity") EXCEPT !.uid = u, !.topics = ts,
                                             !.obs["identity"] = clock]
    <2>1. task' = [task EXCEPT ![c] = new] /\ registry' = registry
      BY <1>2 DEF Subscribe
    <2>2. new.phase = "identity" /\ new.obs["identity"] = clock
      BY DEF At, NoObs, Axis
    <2>. HIDE DEF new
    <2>3. CASE d = c
      <3>1. task'[d] = new
        BY <1>0, <2>1, <2>3
      <3>2. Asked(task'[d]) = {"identity"} /\ task'[d].phase # "ack"
        BY <2>2, <3>1 DEF Asked
      <3>. QED BY <2>1, <2>2, <3>1, <3>2 DEF Handled, Moves, Observes, Keeps
    <2>4. CASE d # c
      <3>1. registry' = [registry EXCEPT ![c] = registry[c]]
        BY <1>0, <2>1
      <3>. QED BY <2>1, <2>4, <3>1, OthersLemma
    <2>. QED BY <2>3, <2>4
  <1>3. ASSUME NEW ts \in SUBSET Topic, Unsubscribe(c, ts)
        PROVE  Handled(d)
    <2>1. Keeps(d)
      BY <1>0, <1>3 DEF Unsubscribe, Unregistered, Keeps
    <2>2. CASE task' = task
      BY <2>1, <2>2 DEF Handled, Moves, Observes, Asked
    <2>3. CASE task' = [task EXCEPT ![c] = At("removed")]
      <3>1. At("removed").phase = "removed"
        BY AtTyped DEF Phase
      <3>. QED BY <2>1, <2>3, <3>1, LeavesLemma DEF AuthPhase
    <2>. QED BY <1>3, <2>2, <2>3 DEF Unsubscribe
  <1>. QED BY <1>1, <1>2, <1>3 DEF Message

\* A request that settles.
LEMMA SettleHandled ==
    ASSUME IInv, NEW c \in Conn, NEW denied \in SUBSET Topic, Settles(c, denied),
           NEW d \in Conn
    PROVE  Handled(d)
  <1>1. CASE d = c
    BY <1>1 DEF Handled
  <1>2. CASE d # c
    BY <1>2, OthersLemma DEF Settles, Settle
  <1>. QED BY <1>1, <1>2

\* A request that goes on keeps the registry.
LEMMA AdvanceHandled ==
    ASSUME IInv, NEW c \in Conn, NEW new, new.phase # "ack",
           task' = [task EXCEPT ![c] = new], UNCHANGED registry,
           Observes(task[c], new), NEW d \in Conn
    PROVE  Handled(d)
  <1>1. task'[c] = new /\ \A e \in Conn \ {c} : task'[e] = task[e]
    BY DEF IInv, TypeOK, TaskOK
  <1>2. Keeps(d)
    BY DEF Keeps
  <1>3. CASE d = c
    BY <1>1, <1>2, <1>3 DEF Handled, Moves, Observes
  <1>4. CASE d # c
    BY <1>1, <1>4, StaysLemma
  <1>. QED BY <1>3, <1>4

\* A step of the authorisation.
LEMMA AuthorisationHandled ==
    ASSUME IInv, NEW c \in Conn, Authorisation(c), NEW d \in Conn
    PROVE  Handled(d)
  <1>0. /\ task[c] \in Task /\ task = [e \in Conn |-> task[e]]
        /\ task[c].obs \in [Axis -> Nat]
    BY TaskTyped DEF IInv, TypeOK, TaskOK, Task
  <1>1. CASE AuthorityDecides(c)
    <2>1. PICK v : task' = [task EXCEPT ![c].verdict = v]
      BY <1>1 DEF AuthorityDecides
    <2> DEFINE new == [task[c] EXCEPT !.verdict = v]
    <2>2. new.phase = task[c].phase /\ new.obs = task[c].obs
      BY <1>0 DEF Task
    <2>3. task' = [task EXCEPT ![c] = new]
      BY <1>0, <2>1
    <2>. HIDE DEF new
    <2>4. Asked(new) = Asked(task[c]) /\ new.phase # "ack" /\ UNCHANGED registry
      BY <1>1, <2>2 DEF Asked, AuthorityDecides, Axis
    <2>5. Observes(task[c], new)
      BY <2>2, <2>4 DEF Observes
    <2>. QED BY <2>3, <2>4, <2>5, AdvanceHandled
  <1>2. CASE EntitlementWorkerStarts(c)
    <2> DEFINE new == [task[c] EXCEPT !.phase = "entitlement",
                                      !.obs["entitlement"] = clock]
    <2>1. task' = [task EXCEPT ![c] = new] /\ UNCHANGED registry
          /\ task[c].phase = "worker"
      BY <1>0, <1>2 DEF EntitlementWorkerStarts
    <2>2. /\ new.phase = "entitlement"
          /\ \A a \in Axis : new.obs[a] = IF a = "entitlement" THEN clock
                                          ELSE task[c].obs[a]
      BY <1>0 DEF Task, Axis
    <2>. HIDE DEF new
    <2>3. Asked(new) = Axis /\ Asked(task[c]) = {"identity", "premium"}
      BY <2>1, <2>2 DEF Asked
    <2>4. Observes(task[c], new)
      BY <2>2, <2>3 DEF Axis, Observes
    <2>5. new.phase # "ack"
      BY <2>2
    <2>. QED BY <2>1, <2>4, <2>5, AdvanceHandled
  <1>3. CASE Inconclusive(c) \/ AuthDeadline(c) \/ IdentityConflict(c)
    <2>1. At("error").phase = "error" /\ At("closing").phase = "closing"
      BY AtTyped DEF Phase
    <2>2. PICK new \in {At("error"), At("closing")} : task' = [task EXCEPT ![c] = new]
      BY <1>3 DEF Inconclusive, AuthDeadline, IdentityConflict
    <2>3. Keeps(d)
      BY <1>3 DEF Inconclusive, AuthDeadline, IdentityConflict, Keeps
    <2>. QED BY <2>1, <2>2, <2>3, LeavesLemma DEF AuthPhase
  <1>4. CASE Unclassified(c)
    BY <1>4, EndsHandled DEF Unclassified
  <1>5. ASSUME NEW t \in Topic
        PROVE  /\ RequiredAxes(t) \subseteq Axis
               /\ "premium" \notin RequiredAxes(t) => RequiredAxes(t) = {"identity"}
               /\ "entitlement" \notin RequiredAxes(t)
                      => RequiredAxes(t) \subseteq {"identity", "premium"}
    BY DEF RequiredAxes, Axis
  <1>6. /\ Authorizable(task[c].topics) \in SUBSET Topic
        /\ PremiumPart(task[c].topics) \in SUBSET Topic
        /\ EntitlementPart(task[c].topics) \in SUBSET Topic
    BY <1>0 DEF PremiumPart, EntitlementPart, Authorizable, Task
  <1>7. CASE IdentityGranted(c)
    <2>1. task[c].phase = "identity" /\ Asked(task[c]) = {"identity"}
      BY <1>7 DEF IdentityGranted, Asked
    <2>2. CASE PremiumPart(task[c].topics) = {}
      <3>1. Settles(c, {})
        BY <1>5, <1>6, <1>7, <2>1, <2>2 DEF IdentityGranted, Settles, PremiumPart
      <3>. QED BY <3>1, SettleHandled
    <2>3. CASE PremiumPart(task[c].topics) # {}
      <3> DEFINE new == [task[c] EXCEPT !.phase = "premium", !.verdict = "pending",
                                        !.obs["premium"] = clock]
      <3>1. task' = [task EXCEPT ![c] = new] /\ UNCHANGED registry
        BY <1>0, <1>7, <2>3 DEF IdentityGranted
      <3>2. /\ new.phase = "premium"
            /\ \A a \in Axis : new.obs[a] = IF a = "premium" THEN clock
                                            ELSE task[c].obs[a]
        BY <1>0 DEF Task, Axis
      <3>. HIDE DEF new
      <3>3. Asked(new) = {"identity", "premium"}
        BY <3>2 DEF Asked
      <3>4. Observes(task[c], new)
        BY <2>1, <3>2, <3>3 DEF Axis, Observes
      <3>5. new.phase # "ack"
        BY <3>2
      <3>. QED BY <3>1, <3>4, <3>5, AdvanceHandled
    <2>. QED BY <2>2, <2>3
  <1>8. CASE PremiumGranted(c)
    <2>1. task[c].phase = "premium" /\ Asked(task[c]) = {"identity", "premium"}
      BY <1>8 DEF PremiumGranted, Asked
    <2>2. CASE EntitlementPart(task[c].topics) = {}
      <3>1. Settles(c, {})
        BY <1>5, <1>6, <1>8, <2>1, <2>2 DEF PremiumGranted, Settles, EntitlementPart
      <3>. QED BY <3>1, SettleHandled
    <2>3. CASE EntitlementPart(task[c].topics) # {}
      <3> DEFINE new == [task[c] EXCEPT !.phase = "worker", !.verdict = "pending"]
      <3>1. task' = [task EXCEPT ![c] = new] /\ UNCHANGED registry
        BY <1>0, <1>8, <2>3 DEF PremiumGranted
      <3>2. new.phase = "worker" /\ new.obs = task[c].obs
        BY <1>0 DEF Task
      <3>. HIDE DEF new
      <3>3. Asked(new) = {"identity", "premium"}
        BY <3>2 DEF Asked
      <3>4. Observes(task[c], new)
        BY <2>1, <3>2, <3>3 DEF Observes
      <3>5. new.phase # "ack"
        BY <3>2
      <3>. QED BY <3>1, <3>4, <3>5, AdvanceHandled
    <2>. QED BY <2>2, <2>3
  <1>9. CASE PremiumDenied(c)
    <2>1. Settles(c, PremiumPart(task[c].topics))
      BY <1>5, <1>6, <1>9 DEF PremiumDenied, Settles, PremiumPart, Asked
    <2>. QED BY <1>6, <2>1, SettleHandled
  <1>10. CASE EntitlementGranted(c)
    <2>1. Settles(c, {})
      BY <1>5, <1>6, <1>10 DEF EntitlementGranted, Settles, Asked
    <2>. QED BY <2>1, SettleHandled
  <1>11. CASE EntitlementDenied(c)
    <2>1. Settles(c, EntitlementPart(task[c].topics))
      BY <1>5, <1>6, <1>11 DEF EntitlementDenied, Settles, Asked
    <2>. QED BY <1>6, <2>1, SettleHandled
  <1>. QED
    BY <1>1, <1>2, <1>3, <1>4, <1>7, <1>8, <1>9, <1>10, <1>11 DEF Authorisation

\* A frame or a snapshot.
LEMMA DeliveryHandled ==
    ASSUME IInv, NEW c \in Conn, Delivery(c), NEW d \in Conn
    PROVE  Handled(d)
  <1>0. task[c] \in Task /\ task = [e \in Conn |-> task[e]]
    BY TaskTyped DEF IInv, TypeOK, TaskOK
  <1>1. CASE FrameFails(c) \/ SnapshotFails(c)
    BY <1>1, EndsHandled DEF FrameFails, SnapshotFails
  <1>2. ASSUME NEW new, task' = [task EXCEPT ![c] = new], UNCHANGED registry,
               new.phase \in {"idle", "build", "send"}
        PROVE  Handled(d)
    <2>1. Keeps(d)
      BY <1>2 DEF Keeps
    <2>. QED BY <1>2, <2>1, LeavesLemma DEF AuthPhase
  <1>3. At("idle").phase = "idle" /\ [At("build") EXCEPT !.topics = task[c].topics].phase = "build"
    BY DEF At
  <1>4. ASSUME NEW t PROVE Rest(c, t).phase \in {"idle", "build"}
    BY DEF Rest, At
  <1>5. CASE FrameSent(c)
    BY <1>2, <1>3, <1>5 DEF FrameSent, Returns
  <1>6. ASSUME NEW t \in Topic, SnapshotBuilt(c, t) PROVE Handled(d)
    <2> DEFINE new == [task[c] EXCEPT !.phase = "send", !.cur = {t}]
    <2>1. new.phase = "send"
      BY <1>0 DEF Task
    <2>2. task' = [task EXCEPT ![c] = new] \/ task' = [task EXCEPT ![c] = Rest(c, t)]
      BY <1>0, <1>6 DEF SnapshotBuilt
    <2>3. UNCHANGED registry
      BY <1>6 DEF SnapshotBuilt
    <2>. HIDE DEF new
    <2>. QED BY <1>2, <1>4, <2>1, <2>2, <2>3
  <1>7. CASE SnapshotSent(c)
    BY <1>2, <1>4, <1>7 DEF SnapshotSent
  <1>. QED BY <1>1, <1>5, <1>6, <1>7 DEF Delivery

\* Whatever the step, each connection is handled in one of these ways.
LEMMA StepHandled ==
    ASSUME IInv, [Next]_vars, NEW d \in Conn
    PROVE  Handled(d)
  <1>1. CASE UNCHANGED vars
    BY <1>1, StaysLemma DEF vars
  <1>2. CASE World
    <2>1. UNCHANGED <<task, registry>>
      BY <1>2 DEF World, Tick, LosesRight, GainsRight, PeerLeaves
    <2>. QED BY <2>1, StaysLemma
  <1>3. ASSUME NEW c \in Conn, Connects(c) PROVE Handled(d)
    <2>1. At("idle").phase = "idle"
      BY AtTyped DEF Phase
    <2>2. Keeps(d) /\ task' = [task EXCEPT ![c] = At("idle")]
      BY <1>3 DEF Connects, Keeps
    <2>. QED BY <2>1, <2>2, LeavesLemma DEF AuthPhase
  <1>4. ASSUME NEW c \in Conn, EndpointEnds(c) PROVE Handled(d)
    BY <1>4, EndsHandled DEF EndpointEnds
  <1>5. ASSUME NEW p \in Publisher, Publish(p) PROVE Handled(d)
    <2>1. UNCHANGED task
      BY <1>5 DEF Publish, PublishBegins, PublishSends, PublishEnds
    <2>2. UNCHANGED registry \/ \E cs : RemoveWebsocket(cs)
      BY <1>5 DEF Publish, PublishBegins, PublishSends, PublishEnds
    <2>3. Keeps(d)
      BY <2>2, RemovesLemma DEF Keeps
    <2>. QED BY <2>1, <2>3 DEF Handled, Moves, Observes, Asked
  <1>. QED
    BY <1>1, <1>2, <1>3, <1>4, <1>5, MessageHandled, AuthorisationHandled,
       DeliveryHandled DEF Next

-----------------------------------------------------------------------------
(* Acknowledgements and renewals                                            *)

\* What is registered can be acknowledged, as long as every topic that is free for
\* anonymous clients is available.
AllAvailable == FreeTopics(Topic) \subseteq Enabled

AckSound(k) ==
    k.phase = "ack" => /\ k.rejected \cap k.active = {}
                       /\ k.topics \subseteq k.active

AckInv ==
    IInv /\ \A c \in Conn : /\ DOMAIN registry[c] \subseteq Supported \cap Enabled
                            /\ AckSound(task[c])

\* A request that settles acknowledges what it has registered.
LEMMA AckSettles ==
    ASSUME IInv, NEW c \in Conn, NEW denied \in SUBSET Topic, Settle(c, denied),
           DOMAIN registry[c] \subseteq Supported \cap Enabled
    PROVE  /\ DOMAIN registry'[c] \subseteq Supported \cap Enabled
           /\ AckSound(task'[c])
  <1> DEFINE accepted == Authorizable(task[c].topics) \ denied
             new == [t \in accepted |->
                        [uid |-> task[c].uid,
                         expires |-> LeaseExpiry(t, task[c].obs, clock)]]
             after == Registered(Unregistered(registry[c], denied), new)
             acked == [At("ack") EXCEPT !.topics = accepted,
                                        !.rejected = Refused(c) \cup denied,
                                        !.active = DOMAIN after]
  <1>1. registry'[c] = after /\ task'[c] = acked
    BY DEF Settle, IInv, TypeOK, TaskOK, RegistryOK
  <1>2. DOMAIN after = (DOMAIN registry[c] \ denied) \cup accepted
    BY DEF Registered, Unregistered
  <1>3. /\ acked.topics = accepted /\ acked.rejected = Refused(c) \cup denied
        /\ acked.active = DOMAIN after
    BY DEF At
  <1>4. accepted \subseteq Supported \cap Enabled
    BY DEF Authorizable
  <1>5. Refused(c) \cap (Supported \cap Enabled) = {} 
    BY DEF Refused, Authorizable
  <1>. HIDE DEF acked, after, accepted
  <1>6. DOMAIN after \subseteq Supported \cap Enabled
    BY <1>2, <1>4
  <1>7. accepted \cap denied = {}
    BY DEF accepted
  <1>. QED BY <1>1, <1>2, <1>3, <1>5, <1>6, <1>7 DEF AckSound

\* Every step keeps the acknowledgements sound.
LEMMA AckStep == AllAvailable /\ AckInv /\ [Next]_vars => AckInv'
  <1>. SUFFICES ASSUME AllAvailable, AckInv, [Next]_vars PROVE AckInv'
    OBVIOUS
  <1>1. IInv /\ IInv'
    BY InvStep DEF AckInv
  <1>2. ASSUME NEW c \in Conn
        PROVE  /\ DOMAIN registry'[c] \subseteq Supported \cap Enabled
               /\ AckSound(task'[c])
    <2>1. DOMAIN registry[c] \subseteq Supported \cap Enabled /\ AckSound(task[c])
      BY DEF AckInv
    <2>2. Handled(c)
      BY <1>1, StepHandled
    <2>3. CASE Moves(c) /\ Keeps(c)
      BY <2>1, <2>3 DEF Moves, Keeps, AckSound
    <2>4. ASSUME NEW ts \in SUBSET Topic, AnonymousSubscribe(c, ts)
          PROVE  /\ DOMAIN registry'[c] \subseteq Supported \cap Enabled
                 /\ AckSound(task'[c])
      <3>1. FreeTopics(ts) \subseteq Supported \cap Enabled
        BY DEF AllAvailable, FreeTopics
      <3>2. DOMAIN registry'[c] = DOMAIN registry[c] \cup FreeTopics(ts)
        BY <1>1, <2>4 DEF AnonymousSubscribe, Registered, IInv, TypeOK, RegistryOK
      <3>3. task'[c].phase = "build"
        BY <1>1, <2>4, FreeSubsetLemma, BuildTyped
           DEF AnonymousSubscribe, IInv, TypeOK, TaskOK
      <3>. QED BY <2>1, <3>1, <3>2, <3>3 DEF AckSound
    <2>5. ASSUME NEW denied \in SUBSET Topic, Settles(c, denied)
          PROVE  /\ DOMAIN registry'[c] \subseteq Supported \cap Enabled
                 /\ AckSound(task'[c])
      BY <1>1, <2>1, <2>5, AckSettles DEF Settles
    <2>. QED BY <2>2, <2>3, <2>4, <2>5 DEF Handled
  <1>. QED BY <1>1, <1>2 DEF AckInv

\* A lease ends within LEASE_MAX of every observation that a request under way has
\* taken since.
RenewInv ==
    IInv /\ \A c \in Conn : \A t \in DOMAIN registry[c] : registry[c][t] # NoLease =>
        \A a \in Asked(task[c]) : registry[c][t].expires <= task[c].obs[a] + LeaseMax

\* A lease in the registry ends within LEASE_MAX from now.
LEMMA LeaseTyped ==
    ASSUME IInv, NEW c \in Conn, NEW t \in DOMAIN registry[c], registry[c][t] # NoLease
    PROVE  /\ t \in Topic /\ registry[c][t].uid \in Uid /\ registry[c][t].expires \in Int
           /\ registry[c][t].expires <= clock + LeaseMax
  <1>1. registry[c][t] \in Lease /\ t \in Topic
    BY DEF IInv, TypeOK, RegistryOK, IsSubscriptions
  <1>2. LeaseSound(registry[c][t].uid, t, registry[c][t].expires)
    BY DEF IInv, RegistrySound, SubsSound, EntrySound
  <1>. QED BY <1>1, <1>2 DEF Lease, LeaseSound

\* Every step keeps the leases behind the requests under way.
LEMMA RenewStep == RenewInv /\ [Next]_vars => RenewInv'
  <1>. SUFFICES ASSUME RenewInv, [Next]_vars PROVE RenewInv'
    OBVIOUS
  <1>1. IInv /\ IInv'
    BY InvStep DEF RenewInv
  <1>2. ASSUME NEW c \in Conn, NEW t \in DOMAIN registry'[c], registry'[c][t] # NoLease,
               NEW a \in Asked(task'[c])
        PROVE  registry'[c][t].expires <= task'[c].obs[a] + LeaseMax
    <2>1. Handled(c)
      BY <1>1, StepHandled
    <2>2. CASE Moves(c) /\ Keeps(c)
      <3>1. t \in DOMAIN registry[c] /\ registry'[c][t] = registry[c][t]
        BY <2>2 DEF Keeps
      <3>2. CASE task'[c].obs[a] = clock
        BY <1>1, <1>2, <3>1, <3>2, LeaseTyped
      <3>3. CASE a \in Asked(task[c]) /\ task'[c].obs[a] = task[c].obs[a]
        BY <1>2, <3>1, <3>3 DEF RenewInv
      <3>. QED BY <1>2, <2>2, <3>2, <3>3 DEF Moves, Observes
    <2>3. ASSUME NEW ts \in SUBSET Topic, AnonymousSubscribe(c, ts)
          PROVE  Asked(task'[c]) = {}
      <3>1. task'[c].phase = "build"
        BY <1>1, <2>3, FreeSubsetLemma, BuildTyped
           DEF AnonymousSubscribe, IInv, TypeOK, TaskOK
      <3>. QED BY <3>1 DEF Asked
    <2>4. ASSUME NEW denied \in SUBSET Topic, Settles(c, denied)
          PROVE  Asked(task'[c]) = {}
      <3>1. task'[c].phase = "ack"
        BY <1>1, <2>4 DEF Settles, Settle, At, IInv, TypeOK, TaskOK
      <3>. QED BY <3>1 DEF Asked
    <2>. QED BY <1>2, <2>1, <2>2, <2>3, <2>4 DEF Handled
  <1>. QED BY <1>1, <1>2 DEF RenewInv

\* The new lease of a settled request.
LEMMA ExpiryBelow ==
    ASSUME NEW t, NEW obs \in [Axis -> Nat], NEW now \in Nat, NEW e \in Int,
           e <= now + LeaseMax, \A a \in RequiredAxes(t) : e <= obs[a] + LeaseMax
    PROVE  e <= LeaseExpiry(t, obs, now)
  <1>1. obs["identity"] \in Nat /\ obs["premium"] \in Nat /\ obs["entitlement"] \in Nat
    BY DEF Axis
  <1>2. LeaseMax \in Nat
    BY TimeAssumption
  <1>3. CASE t \in GatedTopic
    BY <1>1, <1>2, <1>3 DEF LeaseExpiry, Earlier, RequiredAxes, Axis
  <1>4. CASE t \notin GatedTopic /\ Stage = "enforce"
    BY <1>1, <1>2, <1>4 DEF LeaseExpiry, Earlier, RequiredAxes, Axis
  <1>5. CASE t \notin GatedTopic /\ Stage # "enforce"
    BY <1>1, <1>2, <1>5 DEF LeaseExpiry, Earlier, RequiredAxes, Axis
  <1>. QED BY <1>3, <1>4, <1>5

\* A lease that a step leaves in place is no shorter than before.
LEMMA LeasesRenew ==
    ASSUME RenewInv, [Next]_vars, NEW c \in Conn, NEW t \in Topic,
           Leased(c, t), t \in DOMAIN registry'[c]
    PROVE  /\ registry'[c][t] # NoLease
           /\ registry'[c][t].expires >= registry[c][t].expires
  <1>1. IInv /\ t \in DOMAIN registry[c] /\ registry[c][t] # NoLease
    BY DEF RenewInv, Leased, Subs
  <1>2. /\ registry[c][t].expires \in Int
        /\ registry[c][t].expires <= clock + LeaseMax
    BY <1>1, LeaseTyped
  <1>3. Handled(c)
    BY <1>1, StepHandled
  <1>4. CASE registry'[c][t] = registry[c][t]
    BY <1>1, <1>2, <1>4
  <1>5. CASE Keeps(c)
    BY <1>4, <1>5 DEF Keeps
  <1>6. ASSUME NEW ts \in SUBSET Topic, AnonymousSubscribe(c, ts)
        PROVE  registry'[c][t] = registry[c][t]
    <2> DEFINE new == [u \in FreeTopics(ts) |-> NoLease]
    <2>1. registry'[c] = Registered(registry[c], new)
      BY <1>1, <1>6 DEF AnonymousSubscribe, IInv, TypeOK, RegistryOK
    <2>2. t \in DOMAIN new => new[t] = NoLease
      OBVIOUS
    <2>. HIDE DEF new
    <2>. QED BY <1>1, <2>1, <2>2 DEF Registered
  <1>7. ASSUME NEW denied \in SUBSET Topic, Settles(c, denied)
        PROVE  /\ registry'[c][t] # NoLease
               /\ registry'[c][t].expires >= registry[c][t].expires
    <2> DEFINE accepted == Authorizable(task[c].topics) \ denied
               lease(u) == [uid |-> task[c].uid,
                            expires |-> LeaseExpiry(u, task[c].obs, clock)]
               new == [u \in accepted |-> lease(u)]
               before == Unregistered(registry[c], denied)
    <2>1. registry'[c] = Registered(before, new)
      BY <1>1, <1>7 DEF Settles, Settle, IInv, TypeOK, RegistryOK
    <2>2. DOMAIN new = accepted /\ \A u \in accepted : new[u] = lease(u)
      OBVIOUS
    <2>3. DOMAIN before \subseteq DOMAIN registry[c]
          /\ \A u \in DOMAIN before : before[u] = registry[c][u]
      BY DEF Unregistered
    <2>4. CASE t \notin accepted
      <3>. HIDE DEF new, before
      <3>1. registry'[c][t] = before[t] /\ t \in DOMAIN before
        BY <2>1, <2>2, <2>4 DEF Registered
      <3>. QED BY <1>4, <2>3, <3>1
    <2>5. CASE t \in accepted
      <3>1. task[c].obs \in [Axis -> Nat] /\ clock \in Nat
        BY <1>1, TaskTyped DEF IInv, Task
      <3>2. ASSUME NEW a \in RequiredAxes(t)
            PROVE  registry[c][t].expires <= task[c].obs[a] + LeaseMax
        <4>1. a \in Asked(task[c])
          BY <1>7, <2>5 DEF Settles
        <4>. QED BY <1>1, <4>1 DEF RenewInv
      <3>3. registry[c][t].expires <= LeaseExpiry(t, task[c].obs, clock)
            /\ LeaseExpiry(t, task[c].obs, clock) \in Int
        BY <1>2, <3>1, <3>2, ExpiryBelow, ExpiryLemma
      <3>4. task[c].uid \in Uid
        <4>1. task[c].phase \in AuthPhase
          BY <1>7, <2>5, AxesLemma DEF Settles, Asked, AuthPhase
        <4>. QED BY <1>1, <4>1, TaskTyped DEF IInv
      <3>5. lease(t) # NoLease /\ lease(t).expires = LeaseExpiry(t, task[c].obs, clock)
        <4>1. lease(t) \in [uid : Uid, expires : Int]
          BY <3>3, <3>4
        <4>. QED BY <4>1, NoneAssumption
      <3>6. registry'[c][t] = lease(t)
        <4>. HIDE DEF new, before, lease
        <4>. QED BY <2>1, <2>2, <2>5, <3>5 DEF Registered
      <3>. HIDE DEF lease
      <3>. QED BY <1>2, <3>3, <3>5, <3>6
    <2>. QED BY <2>4, <2>5
  <1>. QED BY <1>3, <1>4, <1>5, <1>6, <1>7 DEF Handled

-----------------------------------------------------------------------------
(* Frames                                                                    *)

\* Where a frame starts the connection is among the leased subscribers of its topic.
LEMMA FrameSelected ==
    ASSUME IInv, [Next]_vars, NEW c \in Conn, NEW t \in Topic, FrameStarts(c, t)
    PROVE  c \in LeasedSubscribers(t)
  <1>0. task = [e \in Conn |-> task[e]] /\ gen \in [Topic -> Nat]
        /\ pub \in [Publisher -> PubState]
    BY DEF IInv, TypeOK, TaskOK
  <1>1. CASE gen'[t] # gen[t] /\ \E p \in Publisher : c \in pub'[p].todo \ pub[p].todo
    <2>1. PICK p \in Publisher : c \in pub'[p].todo \ pub[p].todo
      BY <1>1
    <2>2. PICK q \in Publisher, u \in Topic : PublishBegins(q, u)
      <3>1. UNCHANGED gen \/ \E q \in Publisher, u \in Topic : PublishBegins(q, u)
        BY TopicAssumption
           DEF Next, vars, World, Tick, LosesRight, GainsRight, PeerLeaves, Connects,
               Message, AnonymousSubscribe, Subscribe, Unsubscribe, Authorisation,
               AuthorityDecides, EntitlementWorkerStarts, Inconclusive, AuthDeadline,
               Unclassified, IdentityGranted, IdentityConflict, PremiumGranted,
               PremiumDenied, EntitlementGranted, EntitlementDenied, Delivery,
               FrameSent, FrameFails, SnapshotBuilt, SnapshotSent, SnapshotFails,
               EndpointEnds, Publish, PublishSends, PublishEnds
      <3>. QED BY <1>1, <3>1
    <2>3. u = t
      BY <1>0, <1>1, <2>2 DEF PublishBegins
    <2>4. p = q /\ pub'[q].todo = Selected(u)
      BY <1>0, <2>1, <2>2 DEF PublishBegins
    <2>. QED BY <2>1, <2>3, <2>4 DEF Selected
  <1>2. CASE task[c].phase = "build" /\ task'[c].phase = "send" /\ t \in task'[c].cur
    <2>1. ASSUME NEW d \in Conn, NEW new, task' = [task EXCEPT ![d] = new],
                 new.phase # "send"
          PROVE  FALSE
      BY <1>0, <1>2, <2>1
    <2>2. task' # task
      BY <1>2
    <2>3. /\ ~ UNCHANGED vars /\ ~World
          /\ \A p \in Publisher : ~Publish(p)
      BY <2>2 DEF vars, World, Tick, LosesRight, GainsRight, PeerLeaves, Publish,
                  PublishBegins, PublishSends, PublishEnds
    <2>4. ASSUME NEW ph \in Phase PROVE At(ph).phase = ph
      BY AtTyped
    <2>5. ASSUME NEW d \in Conn PROVE ~Connects(d)
      BY <2>1, <2>4 DEF Connects, Phase
    <2>6. ASSUME NEW d \in Conn PROVE ~Ends(d) /\ ~EvictsAndCloses(d)
      BY <2>1, <2>4 DEF Ends, EvictsAndCloses, Phase
    <2>7. ASSUME NEW d \in Conn PROVE ~Message(d)
      <3>1. task[c].phase # "idle"
        BY <1>2
      <3>2. CASE \E ts \in SUBSET Topic : AnonymousSubscribe(d, ts) \/ Unsubscribe(d, ts)
        BY <1>0, <1>2, <2>1, <2>2, <2>4, <3>2
           DEF AnonymousSubscribe, Unsubscribe, Receives, At, Phase
      <3>3. CASE \E ts \in SUBSET Topic, u \in Uid : Subscribe(d, u, ts)
        BY <1>0, <1>2, <3>3 DEF Subscribe, Receives
      <3>. QED BY <3>2, <3>3 DEF Message
    <2>8. ASSUME NEW d \in Conn PROVE ~Authorisation(d)
      <3>1. CASE Authorisation(d) /\ d # c
        BY <1>0, <1>2, <2>6, <3>1
           DEF Authorisation, AuthorityDecides, EntitlementWorkerStarts, Inconclusive,
               AuthDeadline, Unclassified, IdentityGranted, IdentityConflict,
               PremiumGranted, PremiumDenied, EntitlementGranted, EntitlementDenied, Settle
      <3>2. CASE Authorisation(d) /\ d = c
        BY <1>2, <3>2
           DEF Authorisation, AuthorityDecides, EntitlementWorkerStarts, Inconclusive,
               AuthDeadline, Unclassified, IdentityGranted, IdentityConflict,
               PremiumGranted, PremiumDenied, EntitlementGranted, EntitlementDenied,
               Axis, AuthPhase
      <3>. QED BY <3>1, <3>2
    <2>9. ASSUME NEW d \in Conn PROVE ~EndpointEnds(d)
      BY <2>6 DEF EndpointEnds
    <2>10. PICK d \in Conn : Delivery(d)
      BY <2>3, <2>5, <2>7, <2>8, <2>9 DEF Next
    <2>11. ASSUME NEW u PROVE Rest(d, u).phase # "send"
      BY DEF Rest, At
    <2>12. ~FrameFails(d) /\ ~SnapshotFails(d)
      BY <2>6 DEF FrameFails, SnapshotFails
    <2>13. ~FrameSent(d)
      <3>1. [At("build") EXCEPT !.topics = task[d].topics].phase = "build"
            /\ At("idle").phase = "idle"
        BY DEF At
      <3>. QED BY <2>1, <3>1 DEF FrameSent, Returns
    <2>14. ~SnapshotSent(d)
      BY <2>1, <2>11 DEF SnapshotSent
    <2>15. PICK u \in Topic : SnapshotBuilt(d, u)
      BY <2>10, <2>12, <2>13, <2>14 DEF Delivery
    <2>16. /\ d \in LeasedSubscribers(u)
           /\ task' = [task EXCEPT ![d].phase = "send", ![d].cur = {u}]
      BY <2>1, <2>11, <2>15 DEF SnapshotBuilt
    <2>17. d = c
      BY <1>0, <1>2, <2>16
    <2>18. task[c] \in Task
      BY TaskTyped DEF IInv
    <2>19. task'[c].cur = {u}
      BY <1>0, <2>16, <2>17, <2>18 DEF Task
    <2>. QED BY <1>2, <2>16, <2>17, <2>19
  <1>. QED BY <1>1, <1>2 DEF FrameStarts

\* A leased subscriber may have the frame.
LEMMA FrameAllowed ==
    ASSUME IInv, RevocationBound, OneOwner, AnonymousOnlyWhereFree,
           NEW c \in Conn, NEW t \in Topic, c \in LeasedSubscribers(t)
    PROVE  /\ t \in Subs(c)
           /\ IF registry[c][t] = NoLease THEN OpenToAll(t)
              ELSE RecentlyEntitled(owner[c], t)
  BY DEF LeasedSubscribers, RevocationBound, OneOwner, AnonymousOnlyWhereFree, Leased

-----------------------------------------------------------------------------
(* The theorems about them                                                   *)

\* What an acknowledgement says is true of the request it ends, in whatever order
\* subscriptions, refusals and evictions came before, unless a topic that is free for
\* anonymous clients is switched off.
THEOREM AckTruthful == ASSUME AllAvailable PROVE Spec => []AckConsistent
  <1>1. Init => AckInv
    BY InvInit DEF Init, AckInv, AckSound, At, NoSubscription
  <1>2. AckInv /\ [Next]_vars => AckInv'
    BY AckStep
  <1>3. AckInv => AckConsistent
    BY DEF AckInv, AckSound, AckConsistent
  <1>. QED BY <1>1, <1>2, <1>3, PTL DEF Spec

\* A later request of a connection, however long ago its authorities answered, never
\* shortens a lease that it leaves in place, nor makes it unlimited.
THEOREM RenewalsHold == Spec => RenewalNeverWeakens
  <1>1. Init => RenewInv
    BY InvInit DEF Init, RenewInv, NoSubscription
  <1>2. RenewInv /\ [Next]_vars => RenewInv'
    BY RenewStep
  <1>3. RenewInv /\ [Next]_vars =>
          [\A c \in Conn : \A t \in Topic :
              Leased(c, t) /\ t \in DOMAIN registry'[c] =>
                  /\ registry'[c][t] # NoLease
                  /\ registry'[c][t].expires >= registry[c][t].expires]_registry
    BY LeasesRenew
  <1>. QED BY <1>1, <1>2, <1>3, PTL DEF Spec, RenewalNeverWeakens

\* Wherever a publisher or an initial snapshot starts a frame, the connection is
\* subscribed then, and its account is within the revocation bound.
THEOREM FramesAuthorised == Spec => EveryFrameAuthorised
  <1>1. IInv /\ RevocationBound /\ OneOwner /\ AnonymousOnlyWhereFree /\ [Next]_vars =>
          [\A c \in Conn : \A t \in Topic : FrameStarts(c, t) =>
              /\ t \in Subs(c)
              /\ IF registry[c][t] = NoLease THEN OpenToAll(t)
                 ELSE RecentlyEntitled(owner[c], t)]_vars
    BY FrameSelected, FrameAllowed
  <1>. QED BY <1>1, Invariance, RevocationBounded, OwnersNeverMix, AnonymousBounded, PTL
       DEF Spec, EveryFrameAuthorised
=============================================================================
