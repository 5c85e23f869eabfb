--------------------------- MODULE LegacyBroadcast ---------------------------
(* The /ws broadcast of all rates (main.py).  One job builds the payload,     *)
(* compares it with the one in Redis, stores it and sends it to every listed  *)
(* socket; an endpoint lists its socket, then sends the cached payload, or    *)
(* one it builds and caches itself.  A payload is the number of the database  *)
(* state it shows.  Every step ends at an await.                              *)
EXTENDS Integers, FiniteSets

CONSTANTS
    Conn,       \* sockets
    MaxVersion  \* bound: states of the database

VARIABLES
    version,    \* the state of the database
    cache,      \* BROADCAST_CACHE_KEY, 0 when absent
    filler,     \* history: cache was last stored by an endpoint
    job,        \* broadcast_rates_once
    listed,     \* ConnectionManager.active_connections
    sock,       \* by Conn: its endpoint
    last,       \* by Conn: the last payload its peer received, 0 for none
    unserved    \* history: sockets whose initial payload failed, or came after a newer
                \* one, until a broadcast reaches them

legacyVars == <<version, cache, filler, job, listed, sock, last, unserved>>

Resting == [at |-> "idle"]
Gone == [at |-> "gone"]
Receiving == [at |-> "receiving"]
At(c, phase) == sock[c].at = phase

RateChanges ==
    /\ version < MaxVersion
    /\ version' = version + 1
    /\ UNCHANGED <<cache, filler, job, listed, sock, last, unserved>>

\* RedisCache.get and set give nothing and do nothing when Redis fails.
Read == {0, cache}

Stores(v, byEndpoint) ==
    \/ cache' = v /\ filler' = byEndpoint
    \/ UNCHANGED <<cache, filler>>

Evict ==
    /\ cache # 0
    /\ cache' = 0
    /\ UNCHANGED <<version, filler, job, listed, sock, last, unserved>>

-----------------------------------------------------------------------------
\* The tick of the job (one instance at a time) reads the cached payload.
JobReads ==
    /\ job = Resting
    /\ \E seen \in Read : job' = [at |-> "read", seen |-> seen]
    /\ UNCHANGED <<version, cache, filler, listed, sock, last, unserved>>

\* It builds from the database; an unchanged payload ends it.
JobBuilds ==
    /\ job.at = "read"
    /\ job' = IF version = job.seen THEN Resting
                                    ELSE [at |-> "built", payload |-> version]
    /\ UNCHANGED <<version, cache, filler, listed, sock, last, unserved>>

JobStores ==
    /\ job.at = "built"
    /\ Stores(job.payload, FALSE)
    /\ job' = [job EXCEPT !.at = "stored"]
    /\ UNCHANGED <<version, listed, sock, last, unserved>>

\* After the topic hooks and the graph buckets, broadcast() copies the list.
JobSends ==
    /\ job.at = "stored"
    /\ job' = [at |-> "sending", payload |-> job.payload, to |-> listed, failed |-> {}]
    /\ UNCHANGED <<version, cache, filler, listed, sock, last, unserved>>

SendLands(c) ==
    /\ job.at = "sending" /\ c \in job.to
    /\ job' = [job EXCEPT !.to = @ \ {c}]
    /\ last' = [last EXCEPT ![c] = job.payload]
    /\ unserved' = unserved \ {c}
    /\ UNCHANGED <<version, cache, filler, listed, sock>>

\* A slow or broken peer.
SendFails(c) ==
    /\ job.at = "sending" /\ c \in job.to
    /\ job' = [job EXCEPT !.to = @ \ {c}, !.failed = @ \cup {c}]
    /\ UNCHANGED <<version, cache, filler, listed, sock, last, unserved>>

Remaining_All == listed

Remaining == listed \ job.failed

\* disconnect() for every failed socket; their endpoints keep receiving.
JobEnds ==
    /\ job.at = "sending" /\ job.to = {}
    /\ listed' = Remaining
    /\ job' = Resting
    /\ UNCHANGED <<version, cache, filler, sock, last, unserved>>

-----------------------------------------------------------------------------
Unsent(c) == job.at = "sending" => c \notin job.to \cup job.failed

\* manager.connect: the socket, a new one, is listed before anything is sent to it.
Connect(c) ==
    /\ At(c, "gone") /\ Unsent(c)
    /\ sock' = [sock EXCEPT ![c] = [at |-> "opened"]]
    /\ listed' = listed \cup {c}
    /\ last' = [last EXCEPT ![c] = 0]
    /\ unserved' = unserved \ {c}
    /\ UNCHANGED <<version, cache, filler, job>>

\* The cached payload, or on a miss one built from the database.
InitialReads(c) ==
    /\ At(c, "opened")
    /\ \E v \in Read :
          sock' = [sock EXCEPT ![c] =
                     [at |-> "sending", hit |-> v # 0,
                      payload |-> IF v # 0 THEN v ELSE version]]
    /\ UNCHANGED <<version, cache, filler, job, listed, last, unserved>>

InitialSent(c) ==
    /\ At(c, "sending")
    /\ last' = [last EXCEPT ![c] = sock[c].payload]
    /\ unserved' = IF last[c] > sock[c].payload THEN unserved \cup {c} ELSE unserved
    /\ sock' = [sock EXCEPT ![c] = IF sock[c].hit THEN Receiving
                                   ELSE [at |-> "filling", payload |-> version]]
    /\ UNCHANGED <<version, cache, filler, job, listed>>

\* An exception before the peer has the payload (a build or a parse that raises, a
\* send that does) is logged, and the endpoint receives all the same.
InitialFails(c) ==
    /\ sock[c].at \in {"opened", "sending"}
    /\ sock' = [sock EXCEPT ![c] = Receiving]
    /\ unserved' = IF last[c] = 0 THEN unserved \cup {c} ELSE unserved
    /\ UNCHANGED <<version, cache, filler, job, listed, last>>

\* The miss is filled with a payload built after the send.
Fills(c) ==
    /\ At(c, "filling")
    /\ Stores(sock[c].payload, TRUE)
    /\ sock' = [sock EXCEPT ![c] = Receiving]
    /\ UNCHANGED <<version, job, listed, last, unserved>>

\* The peer closes, or a send to it raises: registry.remove, disconnect().
Leaves(c) ==
    /\ sock[c].at \in {"sending", "receiving"}
    /\ sock' = [sock EXCEPT ![c] = Gone]
    /\ listed' = listed \ {c}
    /\ UNCHANGED <<version, cache, filler, job, last, unserved>>

\* warmup_broadcast_cache stores the state the server starts with.
Init ==
    /\ version = 1 /\ cache \in {0, 1} /\ filler = FALSE
    /\ job = Resting /\ listed = {}
    /\ sock = [c \in Conn |-> Gone] /\ last = [c \in Conn |-> 0]
    /\ unserved = {}

Next ==
    \/ RateChanges \/ Evict
    \/ JobReads \/ JobBuilds \/ JobStores \/ JobSends \/ JobEnds
    \/ \E c \in Conn :
        \/ SendLands(c) \/ SendFails(c)
        \/ Connect(c) \/ InitialReads(c) \/ InitialSent(c) \/ InitialFails(c)
        \/ Fills(c) \/ Leaves(c)

-----------------------------------------------------------------------------
\* Between two runs of the job no listed socket is behind the payload the next
\* run compares with, or the change it lacks would never be sent to it.  Three
\* races are outside of it: an endpoint that fills a miss stores a payload that
\* the others have not got (main.py:1150), and a socket whose initial payload was
\* sent after a newer broadcast (main.py:1127), or was never sent because its
\* initial phase failed (main.py:1162), is behind until a broadcast reaches it.
NobodyLeftBehind ==
    job = Resting =>
        \A c \in listed \ unserved :
            At(c, "receiving") => filler \/ last[c] >= cache
=============================================================================
