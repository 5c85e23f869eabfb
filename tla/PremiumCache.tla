---------------------------- MODULE PremiumCache ----------------------------
(* The REST verdict on a subscription (subscription.py) and the webhook that  *)
(* invalidates it (webhooks.py), for one user.  A call reads the cache, awaits *)
(* the provider, and writes the cache afterwards; the subscription changes,    *)
(* webhooks arrive and other calls run in between.  Every step is what one     *)
(* coroutine does between two awaits.                                          *)
EXTENDS Integers

CONSTANTS
    Call,       \* concurrent verifications of the user
    FreshTTL,   \* CACHE_TTL
    StaleTTL,   \* CACHE_STALE_TTL
    PendingTTL, \* PENDING_TTL
    MaxCall,    \* what a request to the provider may take
    MaxNow,     \* bound: the clock stops here
    None

VARIABLES
    now,        \* the wall clock
    premium,    \* what the provider would say now
    seen,       \* history: the last time it would have said so
    cache,      \* the entry of _cache: value, at; None
    pending,    \* the expiry in _pending; None
    call,       \* the calls: idle, asking the provider, or holding its reply
    answer,     \* what the step returned, and if its call crossed a webhook; None
    since,      \* history: what the provider has said since the last webhook
    tainted     \* history: a call that crossed it has stored its reply

premiumVars == <<now, premium, seen, cache, pending, call, answer, since, tainted>>

Never == 0 - StaleTTL - 2 * MaxCall - 1
Idle == [at |-> "idle"]
Reply == {"premium", "not", "nothing"}

\* fetch_revenuecat_result as the callers fold it: only a well-formed 200 or 201
\* determines; errors, other statuses and malformed bodies say nothing.
Judged(r) == IF r = "premium" THEN TRUE
             ELSE IF r = "not" THEN FALSE ELSE None

\* EntitlementCache.get: an entry past its stale age is deleted.
Held == IF cache # None /\ now - cache.at < StaleTTL THEN cache ELSE None
Fresh == Held # None /\ now - cache.at < FreshTTL

Status(b) == IF b THEN "active" ELSE "inactive"
Returns(c, v) == answer' = [verdict |-> v, crossed |-> call[c].crossed]

-----------------------------------------------------------------------------
Tick ==
    /\ now < MaxNow
    /\ \A c \in Call : call[c] # Idle => now - call[c].began < MaxCall
    /\ now' = now + 1
    /\ seen' = [seen EXCEPT ![premium] = now + 1]
    /\ answer' = None
    /\ UNCHANGED <<premium, cache, pending, call, since, tainted>>

\* A purchase, a renewal or an expiry.
Changes ==
    /\ premium' = ~premium
    /\ seen' = [seen EXCEPT ![premium'] = now]
    /\ since' = since \cup {premium'}
    /\ answer' = None
    /\ UNCHANGED <<now, cache, pending, call, tainted>>

Asks(c, held, strict) ==
    [call EXCEPT ![c] = [at |-> "asking", began |-> now, held |-> held,
                         strict |-> strict, crossed |-> FALSE]]

\* verify_premium_status up to its await.
Verify(c) ==
    /\ call[c] = Idle
    /\ cache' = Held
    /\ IF Fresh
       THEN /\ answer' = [verdict |-> Status(cache.value), crossed |-> FALSE]
            /\ UNCHANGED call
       ELSE /\ answer' = None
            /\ call' = Asks(c, IF Held = None THEN None ELSE Held.value, FALSE)
    /\ UNCHANGED <<now, premium, seen, pending, since, tainted>>

\* verify_premium_status_fresh, after a denial on the socket: no cache is read.
VerifyFresh(c) ==
    /\ call[c] = Idle
    /\ call' = Asks(c, None, TRUE)
    /\ answer' = None
    /\ UNCHANGED <<now, premium, seen, cache, pending, since, tainted>>

\* The provider decides on its reply; the reply travels.
Replies(c, r) ==
    /\ call[c].at = "asking"
    /\ r \in {"premium", "not"} => (r = "premium") = premium
    /\ call' = [call EXCEPT ![c] = [at |-> "replied", reply |-> r, began |-> @.began,
                   held |-> @.held, strict |-> @.strict, crossed |-> @.crossed]]
    /\ answer' = None
    /\ UNCHANGED <<now, premium, seen, cache, pending, since, tainted>>

-----------------------------------------------------------------------------
Settled(c) ==
    /\ call' = [call EXCEPT ![c] = Idle]
    /\ UNCHANGED <<now, premium, seen, since>>

Stores(c, b) ==
    /\ cache' = [value |-> b, at |-> now]
    /\ pending' = None
    /\ tainted' = (tainted \/ call[c].crossed)
    /\ Returns(c, Status(b))

\* A determined reply replaces whatever is cached, by whoever stored it meanwhile.
\* A first "not" without a held value is pending until PENDING_TTL has passed.
Determines(c) ==
    /\ call[c].at = "replied"
    /\ LET b == Judged(call[c].reply) IN
       /\ b # None
       /\ \/ /\ b \/ call[c].strict \/ call[c].held # None
             /\ Stores(c, b)
          \/ /\ ~b /\ ~call[c].strict /\ call[c].held = None
             /\ \/ /\ pending # None /\ now > pending
                   /\ Stores(c, b)
                \/ /\ pending # None => now <= pending
                   /\ pending' = IF pending = None THEN now + PendingTTL ELSE pending
                   /\ Returns(c, "pending")
                   /\ UNCHANGED <<cache, tainted>>
    /\ Settled(c)

Fallback_Restamps(c) ==
    IF call[c].held = None THEN cache ELSE [value |-> call[c].held, at |-> now]

\* The cache after a call that learned nothing: the held value is served, not
\* renewed.
Fallback(c) == cache

LearnsNothing(c) ==
    /\ call[c].at = "replied"
    /\ Judged(call[c].reply) = None
    /\ cache' = Fallback(c)
    /\ \/ /\ call[c].strict
          /\ Returns(c, "pending") /\ UNCHANGED pending
       \/ /\ ~call[c].strict /\ call[c].held # None
          /\ Returns(c, Status(call[c].held)) /\ UNCHANGED pending
       \/ /\ ~call[c].strict /\ call[c].held = None
          /\ Returns(c, "pending")
          /\ pending' = IF pending = None THEN now + PendingTTL ELSE pending
    /\ Settled(c)
    /\ UNCHANGED tainted

\* A webhook for the user, or for a transfer from or to it; it may also be lost,
\* late or repeated.
Webhook ==
    /\ cache' = None
    /\ pending' = None
    /\ call' = [c \in Call |-> IF call[c] = Idle THEN Idle
                               ELSE [call[c] EXCEPT !.crossed = TRUE]]
    /\ since' = {premium} /\ tainted' = FALSE
    /\ answer' = None
    /\ UNCHANGED <<now, premium, seen>>

\* The entries of 1000 other users push this one out.
Evicted ==
    /\ cache # None
    /\ cache' = None
    /\ answer' = None
    /\ UNCHANGED <<now, premium, seen, pending, call, since, tainted>>

\* Both caches live in the process, and so do the calls.
Restart ==
    /\ cache' = None /\ pending' = None
    /\ call' = [c \in Call |-> Idle]
    /\ answer' = None
    /\ UNCHANGED <<now, premium, seen, since, tainted>>

Init ==
    /\ now = 0 /\ premium \in BOOLEAN
    /\ seen = [b \in BOOLEAN |-> IF b = premium THEN 0 ELSE Never]
    /\ cache = None /\ pending = None
    /\ call = [c \in Call |-> Idle]
    /\ answer = None
    /\ since = {premium} /\ tainted = FALSE

Next ==
    \/ Tick \/ Changes \/ Webhook \/ Evicted \/ Restart
    \/ \E c \in Call :
          \/ Verify(c) \/ VerifyFresh(c)
          \/ \E r \in Reply : Replies(c, r)
          \/ Determines(c) \/ LearnsNothing(c)

-----------------------------------------------------------------------------
Definite == answer # None /\ answer.verdict # "pending"
Claim == answer.verdict = "active"

\* A definite verdict was the provider's within the stale age and the two
\* requests around it: no outage, malformed reply or chain of fallbacks keeps a
\* subscriber out, or a former one in, for longer (subscription.py:404-465).
VerdictRecent == Definite => now - seen[Claim] < StaleTTL + 2 * MaxCall

\* After a webhook the next call asks the provider (invalidate_user_cache): a
\* verdict no webhook crossed is one the provider has given since the last of
\* them, unless a call that was under way across it has stored its older reply.
WebhookSeen == Definite /\ ~answer.crossed /\ ~tainted => Claim \in since

VerdictTrusted == VerdictRecent /\ WebhookSeen
=============================================================================
