\* One connection, time runs: leases, observations and the loss of rights, silent
\* authorities and dead peers.
SPECIFICATION FairSpec
CONSTANTS
    Conn = {c1}
    Uid = {u1}
    Publisher = {p1}
    Topic = {krx}
    FxTopic = {}
    GatedTopic = {krx}
    Supported = {krx}
    Enabled = {krx}
    Stage = "enforce"
    LeaseMax = 2
    MaxTime = 3
    MaxGen = 1
    NoUid = NoUid
    NoLease = NoLease
INVARIANTS
    RevocationBound
PROPERTIES
    EveryFrameAuthorised
    RequestTerminates
    EvictedIsClosed
CHECK_DEADLOCK FALSE
