-------------------------- MODULE TopicSubscription --------------------------
(***************************************************************************)
(* The WebSocket topic subscriptions of the server (app/topic_dispatcher.py *)
(* with app/topic_lease.py, app/topic_policy.py, app/topic_authorization.py *)
(* and the /ws endpoint of app/main.py).                                    *)
(*                                                                          *)
(* One asyncio event loop runs the receive loop of every connection and the *)
(* publishers.  An action is what a coroutine does between two awaits, so   *)
(* every interleaving below is one the event loop can produce.  Each        *)
(* connection handles one message at a time; while its handler waits for    *)
(* Firebase, RevenueCat, the entitlement query, a snapshot build or a send, *)
(* the clock advances, accounts lose their rights, publishers run and the   *)
(* socket may die.  TOPIC_DISPATCHER_ENABLED is on: with the flag off no    *)
(* operation below changes the registry.                                    *)
(***************************************************************************)
EXTENDS Integers, FiniteSets

CONSTANTS
    Conn,        \* WebSocket objects; each is used for one connection
    Uid,         \* accounts
    Publisher,   \* tasks that call publish_topic or publish_topic_detailed
    Topic,       \* the keys of TOPIC_POLICY
    FxTopic,     \* the canonical FX topics
    GatedTopic,  \* the PREMIUM_AND_ENTITLEMENT rows of TOPIC_POLICY
    Supported,   \* supported_snapshot_topics() of this process
    Enabled,     \* the topics whose availability flag is on
    Stage,       \* the rollout stage, fixed for the life of the process
    LeaseMax,    \* LEASE_MAX_SECONDS, in ticks of the monotonic clock
    MaxTime,     \* bound of the model: the last tick
    MaxGen,      \* bound of the model: payloads published per topic
    NoUid,       \* ConnectionIdentity before the first bind
    NoLease      \* the None stored for an anonymous subscription

Stages == {"compatibility", "reject_anonymous_fx", "enforce"}
Axis == {"identity", "premium", "entitlement"}

ASSUME TopicAssumption ==
    /\ FxTopic \subseteq Topic /\ GatedTopic \subseteq Topic
    /\ FxTopic \cap GatedTopic = {}
    /\ Supported \subseteq Topic /\ Enabled \subseteq Topic
    /\ Stage \in Stages
ASSUME TimeAssumption == LeaseMax \in Nat \ {0} /\ MaxTime \in Nat /\ MaxGen \in Nat
ASSUME NoneAssumption == NoUid \notin Uid /\ NoLease \notin [uid : Uid, expires : Int]

VARIABLES
    clock,     \* lease_clock().mono()
    held,      \* held[u][a]: account u has the right of axis a (outside the server)
    lostAt,    \* lostAt[u][a]: when u lost it, -LeaseMax if u has it or never had it
    sock,      \* the socket of each connection, as starlette sees it
    owner,     \* ConnectionIdentity._uid
    registry,  \* TopicRegistry._subscriptions: connection -> topic -> lease
    task,      \* the endpoint coroutine of each connection
    pub,       \* publish_topic in each publisher
    gen        \* _topic_payload_generations

vars == <<clock, held, lostAt, sock, owner, registry, task, pub, gen>>

Lease == [uid : Uid, expires : Int]
IsSubscriptions(r) ==
    DOMAIN r \subseteq Topic /\ r \in [DOMAIN r -> Lease \cup {NoLease}]
NoSubscription == [t \in {} |-> NoLease]

AuthPhase == {"identity", "premium", "worker", "entitlement"}
Phase == AuthPhase \cup
    {"absent", "idle", "error", "ack", "removed", "build", "send", "closing", "ended"}
Verdict == {"pending", "granted", "denied", "unavailable"}

\* A coroutine's locals.  `topics` is the request while it is authorised and the
\* snapshots still to send afterwards; `cur` is the snapshot being sent.
Task == [phase : Phase, uid : Uid \cup {NoUid}, topics : SUBSET Topic,
         cur : SUBSET Topic, obs : [Axis -> Nat], verdict : Verdict,
         rejected : SUBSET Topic, active : SUBSET Topic]
NoObs == [a \in Axis |-> 0]
At(phase) == [phase |-> phase, uid |-> NoUid, topics |-> {}, cur |-> {},
              obs |-> NoObs, verdict |-> "pending", rejected |-> {}, active |-> {}]

PubState == [phase : {"idle", "sending", "closing"},
             todo : SUBSET Conn, failed : SUBSET Conn]

-----------------------------------------------------------------------------
(* Policy: topic_policy.plan_authenticated, plan_anonymous and the          *)
(* classification of handle_client_message.                                 *)

RequiredAxes(t) ==
    IF t \in GatedTopic THEN Axis
    ELSE IF Stage = "enforce" THEN {"identity", "premium"}
    ELSE {"identity"}

\* mutant: the anonymous path registers whatever is supported
FreeTopics_KeepsGated(ts) ==
    {t \in ts \cap Supported :
        /\ Stage # "enforce"
        /\ Stage = "reject_anonymous_fx" => t \notin FxTopic}

\* What an anonymous subscribe may register.
FreeTopics(ts) ==
    {t \in ts \cap Supported :
        /\ t \notin GatedTopic
        /\ Stage # "enforce"
        /\ Stage = "reject_anonymous_fx" => t \notin FxTopic}

Authorizable(ts) == ts \cap Supported \cap Enabled
PremiumPart(ts) == {t \in Authorizable(ts) : "premium" \in RequiredAxes(t)}
EntitlementPart(ts) == {t \in Authorizable(ts) : "entitlement" \in RequiredAxes(t)}

-----------------------------------------------------------------------------
(* Leases: topic_lease._lease_expiry_from_observations and its three users. *)

Earlier(a, b) == IF a <= b THEN a ELSE b

\* mutant: the lease runs from the moment the verifications are over
LeaseExpiry_FromNow(t, obs, now) == now + LeaseMax

\* min(now, the observation of every axis the topic needs) + LEASE_MAX
LeaseExpiry(t, obs, now) ==
    LET identity == Earlier(now, obs["identity"])
        premium  == Earlier(identity, obs["premium"])
        gated    == Earlier(premium, obs["entitlement"])
    IN  LeaseMax + ( IF "entitlement" \in RequiredAxes(t) THEN gated
                     ELSE IF "premium" \in RequiredAxes(t) THEN premium
                     ELSE identity )

IsExpired(now, lease) == now >= lease.expires

-----------------------------------------------------------------------------
(* TopicRegistry                                                            *)

Subs(c) == DOMAIN registry[c]

\* mutant: a registration without a lease overwrites the lease it finds
Registered_Overwrites(r, new) ==
    [t \in DOMAIN r \cup DOMAIN new |-> IF t \in DOMAIN new THEN new[t] ELSE r[t]]

\* register: a lease that is not provided never replaces the one stored.
Registered(r, new) ==
    [t \in DOMAIN r \cup DOMAIN new |->
        IF t \in DOMAIN new /\ (new[t] # NoLease \/ t \notin DOMAIN r)
        THEN new[t] ELSE r[t]]

Unregistered(r, ts) == [t \in DOMAIN r \ ts |-> r[t]]

RemoveWebsocket(cs) ==
    registry' = [c \in Conn |-> IF c \in cs THEN NoSubscription ELSE registry[c]]

\* leased_subscribers(topic)
LeasedSubscribers(t) ==
    {c \in Conn : /\ t \in Subs(c)
                  /\ \/ registry[c][t] = NoLease
                     \/ ~IsExpired(clock, registry[c][t])}

-----------------------------------------------------------------------------
(* The environment: time, accounts and peers                                *)

Tick == /\ clock < MaxTime
        /\ clock' = clock + 1
        /\ UNCHANGED <<held, lostAt, sock, owner, registry, task, pub, gen>>

\* The rights that no topic of the instance needs stay as they are.
AxisInUse == UNION {RequiredAxes(t) : t \in Topic}

\* A token is revoked, a purchase lapses, an entitlement row is deleted.
LosesRight(u, a) ==
    /\ a \in AxisInUse
    /\ held[u][a]
    /\ held' = [held EXCEPT ![u][a] = FALSE]
    /\ lostAt' = [lostAt EXCEPT ![u][a] = clock]
    /\ UNCHANGED <<clock, sock, owner, registry, task, pub, gen>>

GainsRight(u, a) ==
    /\ ~held[u][a]
    /\ held' = [held EXCEPT ![u][a] = TRUE]
    /\ lostAt' = [lostAt EXCEPT ![u][a] = -LeaseMax]
    /\ UNCHANGED <<clock, sock, owner, registry, task, pub, gen>>

PeerLeaves(c) ==
    /\ sock[c] = "open"
    /\ sock' = [sock EXCEPT ![c] = "peer_gone"]
    /\ UNCHANGED <<clock, held, lostAt, owner, registry, task, pub, gen>>

-----------------------------------------------------------------------------
(* The endpoint: connect, one message at a time, the finally block          *)

Connects(c) ==
    /\ task[c].phase = "absent"
    /\ sock' = [sock EXCEPT ![c] = "open"]
    /\ task' = [task EXCEPT ![c] = At("idle")]
    /\ UNCHANGED <<clock, held, lostAt, owner, registry, pub, gen>>

\* receive_text returns a message; one already queued survives the peer.
Receives(c) == task[c].phase = "idle" /\ sock[c] \in {"open", "peer_gone"}

\* The coroutine leaves handle_client_message with the frame sent.
Returns(c) == task' = [task EXCEPT ![c] = At("idle")]

\* mutant: the finally block forgets the registry
Ends_LeavesRegistry(c) ==
    /\ task' = [task EXCEPT ![c] = At("ended")]
    /\ sock' = [sock EXCEPT ![c] = "shut"]
    /\ UNCHANGED registry

\* The finally block of websocket_endpoint.
Ends(c) ==
    /\ task' = [task EXCEPT ![c] = At("ended")]
    /\ sock' = [sock EXCEPT ![c] = "shut"]
    /\ RemoveWebsocket({c})

\* A deadline or a snapshot failure: evict, close the socket (an await of at
\* most one second), then raise to the endpoint.
EvictsAndCloses(c) ==
    /\ task' = [task EXCEPT ![c] = At("closing")]
    /\ sock' = [sock EXCEPT ![c] = "shut"]
    /\ RemoveWebsocket({c})

EndpointEnds(c) ==
    /\ \/ task[c].phase = "idle" /\ sock[c] # "open"
       \/ task[c].phase = "closing"
    /\ Ends(c)
    /\ UNCHANGED <<clock, held, lostAt, owner, pub, gen>>

-----------------------------------------------------------------------------
(* subscribe without a token                                                *)

AnonymousSubscribe(c, ts) ==
    /\ Receives(c)
    /\ FreeTopics(ts) # {}
    /\ registry' = [registry EXCEPT ![c] =
                        Registered(@, [t \in FreeTopics(ts) |-> NoLease])]
    /\ task' = [task EXCEPT ![c] = [At("build") EXCEPT !.topics = FreeTopics(ts)]]
    /\ UNCHANGED <<clock, held, lostAt, sock, owner, pub, gen>>

-----------------------------------------------------------------------------
(* subscribe with a token: identity, premium, entitlement                   *)

\* The identity observation is taken before the verification starts.
Subscribe(c, u, ts) ==
    /\ Receives(c)
    /\ task' = [task EXCEPT ![c] =
                   [At("identity") EXCEPT !.uid = u, !.topics = ts,
                                          !.obs["identity"] = clock]]
    /\ UNCHANGED <<clock, held, lostAt, sock, owner, registry, pub, gen>>

\* Firebase, RevenueCat or the database decides; the answer still has to travel.
AuthorityDecides(c) ==
    /\ task[c].phase \in Axis
    /\ task[c].verdict = "pending"
    /\ \E v \in {"unavailable",
                 IF held[task[c].uid][task[c].phase] THEN "granted" ELSE "denied"} :
          task' = [task EXCEPT ![c].verdict = v]
    /\ UNCHANGED <<clock, held, lostAt, sock, owner, registry, pub, gen>>

\* The worker thread takes the entitlement observation right before its query.
EntitlementWorkerStarts(c) ==
    /\ task[c].phase = "worker"
    /\ task' = [task EXCEPT ![c].phase = "entitlement",
                            ![c].obs["entitlement"] = clock]
    /\ UNCHANGED <<clock, held, lostAt, sock, owner, registry, pub, gen>>

\* SubscribeAuthFailed or an Unavailable axis: the whole request fails, the
\* registry is not touched and an error frame goes out.
Inconclusive(c) ==
    /\ \/ task[c].phase = "identity" /\ task[c].verdict \in {"denied", "unavailable"}
       \/ task[c].phase \in {"premium", "entitlement"} /\ task[c].verdict = "unavailable"
    /\ task' = [task EXCEPT ![c] = At("error")]
    /\ UNCHANGED <<clock, held, lostAt, sock, owner, registry, pub, gen>>

\* mutant: no deadline around the authorisation calls
AuthDeadline_OnlyIdentity(c) ==
    /\ task[c].phase = "identity"
    /\ task' = [task EXCEPT ![c] = At("error")]
    /\ UNCHANGED <<clock, held, lostAt, sock, owner, registry, pub, gen>>

\* The absolute deadline that identity and authorisation share.
AuthDeadline(c) ==
    /\ task[c].phase \in AuthPhase
    /\ task' = [task EXCEPT ![c] = At("error")]
    /\ UNCHANGED <<clock, held, lostAt, sock, owner, registry, pub, gen>>

\* An exception nobody classifies propagates to the endpoint.
Unclassified(c) ==
    /\ task[c].phase \in AuthPhase
    /\ Ends(c)
    /\ UNCHANGED <<clock, held, lostAt, owner, pub, gen>>

Refused(c) == task[c].topics \ Authorizable(task[c].topics)

\* mutant: a denied partition keeps its old registration
Settle_KeepsDenied(c, denied) ==
    LET accepted == Authorizable(task[c].topics) \ denied
        new == [t \in accepted |->
                   [uid |-> task[c].uid,
                    expires |-> LeaseExpiry(t, task[c].obs, clock)]]
        after == Registered(registry[c], new)
    IN  /\ registry' = [registry EXCEPT ![c] = after]
        /\ task' = [task EXCEPT ![c] =
                       [At("ack") EXCEPT !.topics = accepted,
                                         !.rejected = Refused(c) \cup denied,
                                         !.active = DOMAIN after]]

\* Step 3 of handle_client_message, with no await inside: revoke the denied
\* partition, register the rest with leases computed from a single `now`, and
\* start the ack that describes the result.
Settle(c, denied) ==
    LET accepted == Authorizable(task[c].topics) \ denied
        new == [t \in accepted |->
                   [uid |-> task[c].uid,
                    expires |-> LeaseExpiry(t, task[c].obs, clock)]]
        after == Registered(Unregistered(registry[c], denied), new)
    IN  /\ registry' = [registry EXCEPT ![c] = after]
        /\ task' = [task EXCEPT ![c] =
                       [At("ack") EXCEPT !.topics = accepted,
                                         !.rejected = Refused(c) \cup denied,
                                         !.active = DOMAIN after]]

Bindable(c) == owner[c] \in {NoUid, task[c].uid}

\* mutant: bind() returns for a second account as it does for the first
IdentityGranted_NoConflict(c) ==
    /\ task[c].phase = "identity" /\ task[c].verdict = "granted"
    /\ owner' = [owner EXCEPT ![c] = IF @ = NoUid THEN task[c].uid ELSE @]
    /\ IF PremiumPart(task[c].topics) = {}
       THEN Settle(c, {})
       ELSE /\ task' = [task EXCEPT ![c].phase = "premium", ![c].verdict = "pending",
                                    ![c].obs["premium"] = clock]
            /\ UNCHANGED registry
    /\ UNCHANGED <<clock, held, lostAt, sock, pub, gen>>

\* The verified account takes the connection, then the request is classified.
\* Without a premium topic it settles at once; otherwise the premium
\* observation is taken right before the RevenueCat call.
IdentityGranted(c) ==
    /\ task[c].phase = "identity" /\ task[c].verdict = "granted"
    /\ Bindable(c)
    /\ owner' = [owner EXCEPT ![c] = task[c].uid]
    /\ IF PremiumPart(task[c].topics) = {}
       THEN Settle(c, {})
       ELSE /\ task' = [task EXCEPT ![c].phase = "premium", ![c].verdict = "pending",
                                    ![c].obs["premium"] = clock]
            /\ UNCHANGED registry
    /\ UNCHANGED <<clock, held, lostAt, sock, pub, gen>>

\* Another account on a bound connection: close 1008, end the endpoint.
IdentityConflict(c) ==
    /\ task[c].phase = "identity" /\ task[c].verdict = "granted"
    /\ ~Bindable(c)
    /\ task' = [task EXCEPT ![c] = At("closing")]
    /\ sock' = [sock EXCEPT ![c] = "shut"]
    /\ UNCHANGED <<clock, held, lostAt, owner, registry, pub, gen>>

PremiumGranted(c) ==
    /\ task[c].phase = "premium" /\ task[c].verdict = "granted"
    /\ IF EntitlementPart(task[c].topics) = {}
       THEN Settle(c, {})
       ELSE /\ task' = [task EXCEPT ![c].phase = "worker", ![c].verdict = "pending"]
            /\ UNCHANGED registry
    /\ UNCHANGED <<clock, held, lostAt, sock, owner, pub, gen>>

PremiumDenied(c) ==
    /\ task[c].phase = "premium" /\ task[c].verdict = "denied"
    /\ Settle(c, PremiumPart(task[c].topics))
    /\ UNCHANGED <<clock, held, lostAt, sock, owner, pub, gen>>

EntitlementGranted(c) ==
    /\ task[c].phase = "entitlement" /\ task[c].verdict = "granted"
    /\ Settle(c, {})
    /\ UNCHANGED <<clock, held, lostAt, sock, owner, pub, gen>>

EntitlementDenied(c) ==
    /\ task[c].phase = "entitlement" /\ task[c].verdict = "denied"
    /\ Settle(c, EntitlementPart(task[c].topics))
    /\ UNCHANGED <<clock, held, lostAt, sock, owner, pub, gen>>

-----------------------------------------------------------------------------
(* Frames: the ack, the error, unsubscribe                                  *)

\* The ack or the error frame is sent.  Snapshots follow the ack of a request
\* that was accepted in part at least.
FrameSent(c) ==
    /\ task[c].phase \in {"error", "ack", "removed"}
    /\ sock[c] = "open"
    /\ IF task[c].topics = {}
       THEN Returns(c)
       ELSE task' = [task EXCEPT ![c] =
                        [At("build") EXCEPT !.topics = task[c].topics]]
    /\ UNCHANGED <<clock, held, lostAt, sock, owner, registry, pub, gen>>

\* The send raises, or the ack deadline closes the socket with 1013.  The ack
\* of an unsubscribe has no deadline.
FrameFails(c) ==
    /\ \/ task[c].phase \in {"error", "ack", "removed"} /\ Ends(c)
       \/ task[c].phase \in {"error", "ack"} /\ EvictsAndCloses(c)
    /\ UNCHANGED <<clock, held, lostAt, owner, pub, gen>>

\* The registry shrinks before the ack; an anonymous request gets no ack.
Unsubscribe(c, ts) ==
    /\ Receives(c)
    /\ registry' = [registry EXCEPT ![c] = Unregistered(@, ts)]
    /\ task' \in {task, [task EXCEPT ![c] = At("removed")]}
    /\ UNCHANGED <<clock, held, lostAt, sock, owner, pub, gen>>

-----------------------------------------------------------------------------
(* send_initial_snapshots                                                   *)

Rest(c, t) ==
    IF task[c].topics \ {t} = {} THEN At("idle")
    ELSE [At("build") EXCEPT !.topics = task[c].topics \ {t}]

\* mutant: the snapshot is sent without looking at the gate again
SnapshotBuilt_NoGate(c, t) ==
    /\ task[c].phase = "build" /\ t \in task[c].topics
    /\ \/ task' = [task EXCEPT ![c].phase = "send", ![c].cur = {t}]
       \/ task' = [task EXCEPT ![c] = Rest(c, t)]
    /\ UNCHANGED <<clock, held, lostAt, sock, owner, registry, pub, gen>>

\* The build ends; the gate is consulted again before the send starts.  No
\* payload, no registration left or an expired lease: the topic is skipped.
SnapshotBuilt(c, t) ==
    /\ task[c].phase = "build" /\ t \in task[c].topics
    /\ \/ /\ c \in LeasedSubscribers(t)
          /\ task' = [task EXCEPT ![c].phase = "send", ![c].cur = {t}]
       \/ task' = [task EXCEPT ![c] = Rest(c, t)]
    /\ UNCHANGED <<clock, held, lostAt, sock, owner, registry, pub, gen>>

SnapshotSent(c) ==
    /\ task[c].phase = "send" /\ sock[c] = "open"
    /\ \E t \in task[c].cur : task' = [task EXCEPT ![c] = Rest(c, t)]
    /\ UNCHANGED <<clock, held, lostAt, sock, owner, registry, pub, gen>>

\* The build fails or runs out of budget, or the send does.
SnapshotFails(c) ==
    /\ \/ task[c].phase \in {"build", "send"} /\ EvictsAndCloses(c)
       \/ task[c].phase = "send" /\ Ends(c)
    /\ UNCHANGED <<clock, held, lostAt, owner, pub, gen>>

-----------------------------------------------------------------------------
(* publish_topic and publish_topic_detailed                                 *)

Selected(t) == LeasedSubscribers(t)

PublishBegins(p, t) ==
    /\ pub[p].phase = "idle"
    /\ gen[t] < MaxGen
    /\ gen' = [gen EXCEPT ![t] = @ + 1]
    /\ pub' = [pub EXCEPT ![p] =
                  [phase |-> IF Selected(t) = {} THEN "idle" ELSE "sending",
                   todo |-> Selected(t), failed |-> {}]]
    /\ UNCHANGED <<clock, held, lostAt, sock, owner, registry, task>>

\* One send of the fan-out: delivered, or failed and evicted.  The sends are
\* sequential and the loop never looks at the registry again.
PublishSends(p, c) ==
    /\ pub[p].phase = "sending" /\ c \in pub[p].todo
    /\ LET rest == pub[p].todo \ {c} IN
       \/ /\ sock[c] = "open"
          /\ pub' = [pub EXCEPT ![p].todo = rest,
                                ![p].phase = IF rest # {} THEN "sending"
                                             ELSE IF pub[p].failed # {} THEN "closing"
                                             ELSE "idle"]
          /\ UNCHANGED registry
       \/ /\ pub' = [pub EXCEPT ![p].todo = rest, ![p].failed = @ \cup {c},
                                ![p].phase = IF rest # {} THEN "sending"
                                             ELSE "closing"]
          /\ RemoveWebsocket({c})
    /\ UNCHANGED <<clock, held, lostAt, sock, owner, task, gen>>

\* mutant: the evicted sockets are not closed
PublishEnds_NoClose(p) ==
    /\ pub[p].phase = "closing"
    /\ pub' = [pub EXCEPT ![p].phase = "idle", ![p].failed = {}]
    /\ UNCHANGED <<clock, held, lostAt, sock, owner, registry, task, gen>>

\* The evicted sockets are closed together, after the fan-out.
PublishEnds(p) ==
    /\ pub[p].phase = "closing"
    /\ sock' = [c \in Conn |-> IF c \in pub[p].failed THEN "shut" ELSE sock[c]]
    /\ pub' = [pub EXCEPT ![p].phase = "idle", ![p].failed = {}]
    /\ UNCHANGED <<clock, held, lostAt, owner, registry, task, gen>>

-----------------------------------------------------------------------------
Init ==
    /\ clock = 0
    /\ held \in [Uid -> [Axis -> BOOLEAN]]
    /\ \A u \in Uid : \A a \in Axis \ AxisInUse : held[u][a]
    /\ lostAt = [u \in Uid |-> [a \in Axis |-> -LeaseMax]]
    /\ sock = [c \in Conn |-> "none"]
    /\ owner = [c \in Conn |-> NoUid]
    /\ registry = [c \in Conn |-> NoSubscription]
    /\ task = [c \in Conn |-> At("absent")]
    /\ pub = [p \in Publisher |-> [phase |-> "idle", todo |-> {}, failed |-> {}]]
    /\ gen = [t \in Topic |-> 0]

Authorisation(c) ==
    \/ AuthorityDecides(c) \/ EntitlementWorkerStarts(c) \/ Inconclusive(c)
    \/ AuthDeadline(c) \/ Unclassified(c)
    \/ IdentityGranted(c) \/ IdentityConflict(c)
    \/ PremiumGranted(c) \/ PremiumDenied(c)
    \/ EntitlementGranted(c) \/ EntitlementDenied(c)

Delivery(c) ==
    \/ FrameSent(c) \/ FrameFails(c)
    \/ \E t \in Topic : SnapshotBuilt(c, t)
    \/ SnapshotSent(c) \/ SnapshotFails(c)

Message(c) ==
    \E ts \in SUBSET Topic \ {{}} :
        \/ AnonymousSubscribe(c, ts)
        \/ \E u \in Uid : Subscribe(c, u, ts)
        \/ Unsubscribe(c, ts)

\* The publisher modules skip a topic whose availability flag is off.
Publish(p) ==
    \/ \E t \in Supported \cap Enabled : PublishBegins(p, t)
    \/ \E c \in Conn : PublishSends(p, c)
    \/ PublishEnds(p)

World ==
    \/ Tick
    \/ \E u \in Uid, a \in Axis : LosesRight(u, a) \/ GainsRight(u, a)
    \/ \E c \in Conn : PeerLeaves(c)

Next ==
    \/ World
    \/ \E c \in Conn : Connects(c) \/ Message(c) \/ Authorisation(c)
                       \/ Delivery(c) \/ EndpointEnds(c)
    \/ \E p \in Publisher : Publish(p)

Spec == Init /\ [][Next]_vars

\* Timers fire, sends complete or fail, coroutines that are ready run.  Nothing
\* is assumed of the peers, of the clients or of the authorities.
Fairness ==
    /\ \A c \in Conn : /\ WF_vars(AuthDeadline(c))
                       /\ WF_vars(Delivery(c))
                       /\ WF_vars(EndpointEnds(c))
    /\ \A p \in Publisher : WF_vars((\E c \in Conn : PublishSends(p, c)) \/ PublishEnds(p))

FairSpec == Spec /\ Fairness

-----------------------------------------------------------------------------
(* Properties                                                               *)

RegistryOK ==
    /\ registry = [c \in Conn |-> registry[c]]
    /\ \A c \in Conn : IsSubscriptions(registry[c])

TaskOK ==
    /\ task \in [Conn -> Task]
    /\ \A c \in Conn : task[c].phase \in AuthPhase => task[c].uid \in Uid

\* The type of every variable; a coroutine that authorises knows its account.
TypeOK ==
    /\ clock \in 0..MaxTime
    /\ held \in [Uid -> [Axis -> BOOLEAN]]
    /\ lostAt \in [Uid -> [Axis -> Int]]
    /\ sock \in [Conn -> {"none", "open", "peer_gone", "shut"}]
    /\ owner \in [Conn -> Uid \cup {NoUid}]
    /\ RegistryOK
    /\ TaskOK
    /\ pub \in [Publisher -> PubState]
    /\ gen \in [Topic -> Nat]

Leased(c, t) == t \in Subs(c) /\ registry[c][t] # NoLease

\* The account still has every right the topic needs, or lost it less than
\* LEASE_MAX ago.
RecentlyEntitled(u, t) ==
    \A a \in RequiredAxes(t) : held[u][a] \/ clock < lostAt[u][a] + LeaseMax

\* What a client without an account may be served: nothing that needs an
\* entitlement, and of the rest what the rollout stage leaves open.
OpenToAll(t) ==
    /\ t \in Supported /\ "entitlement" \notin RequiredAxes(t)
    /\ \/ Stage = "compatibility"
       \/ Stage = "reject_anonymous_fx" /\ t \notin FxTopic

\* No subscription without a lease exists for a topic the rollout stage or the
\* policy table closes to anonymous clients (a KRX entry without a lease would
\* be unlimited: leased_subscribers lets a None lease through).
AnonymousOnlyWhereFree ==
    \A c \in Conn : \A t \in Subs(c) :
        registry[c][t] = NoLease => OpenToAll(t)

\* The bound topic_lease.py promises: a lease still alive belongs to an account
\* that had every right the topic needs less than LEASE_MAX ago, whatever time
\* the verifications took and whenever the right was lost during them.
RevocationBound ==
    \A c \in Conn : \A t \in Subs(c) :
        Leased(c, t) /\ ~IsExpired(clock, registry[c][t])
            => RecentlyEntitled(registry[c][t].uid, t)

\* Every lease of a connection was issued to the account that owns it: two
\* accounts never mix on one socket (ConnectionIdentity).
OneOwner ==
    \A c \in Conn : \A t \in Subs(c) :
        Leased(c, t) => registry[c][t].uid = owner[c]

\* A connection whose endpoint has ended is not in the registry, although its
\* handler may have registered topics after a publisher evicted it.
NoGhostSubscriber ==
    \A c \in Conn : task[c].phase \in {"absent", "ended"} => Subs(c) = {}

\* The ack never contradicts itself: no topic is both rejected and active, and
\* what it accepts is active.
AckConsistent ==
    \A c \in Conn : task[c].phase = "ack" =>
        /\ task[c].rejected \cap task[c].active = {}
        /\ task[c].topics \subseteq task[c].active

\* A step of any coroutine that leaves a leased subscription in place neither
\* removes the lease (which would make it unlimited) nor shortens it.
RenewalNeverWeakens ==
    [][\A c \in Conn : \A t \in Topic :
          Leased(c, t) /\ t \in DOMAIN registry'[c] =>
              /\ registry'[c][t] # NoLease
              /\ registry'[c][t].expires >= registry[c][t].expires]_registry

FrameStarts(c, t) ==
    \/ gen'[t] # gen[t] /\ \E p \in Publisher : c \in pub'[p].todo \ pub[p].todo
    \/ task[c].phase = "build" /\ task'[c].phase = "send" /\ t \in task'[c].cur

\* Whenever a frame of a topic is authorised, by a publisher or by the initial
\* snapshot whose build took time, the connection is subscribed and its account
\* is within the revocation bound at that instant.
EveryFrameAuthorised ==
    [][\A c \in Conn : \A t \in Topic : FrameStarts(c, t) =>
          /\ t \in Subs(c)
          /\ IF registry[c][t] = NoLease THEN OpenToAll(t)
             ELSE RecentlyEntitled(owner[c], t)]_vars

\* A request always ends: with a frame, or with the connection.  Firebase,
\* RevenueCat and the database may never answer.
RequestTerminates ==
    \A c \in Conn :
        task[c].phase \notin {"absent", "idle", "ended"} ~> task[c].phase \in {"idle", "ended"}

\* An eviction by a publisher is never silent: the socket is closed, so the
\* client reconnects instead of waiting for a topic that no longer comes.
EvictedIsClosed ==
    \A c \in Conn : (\E p \in Publisher : c \in pub[p].failed) ~> sock[c] = "shut"
=============================================================================
