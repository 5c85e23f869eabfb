\* Two connections and a publisher that evicts.
SPECIFICATION Spec
CONSTANTS
    Conn = {c1, c2}
    Uid = {u1, u2}
    Publisher = {p1}
    Topic = {usdt}
    FxTopic = {}
    GatedTopic = {}
    Supported = {usdt}
    Enabled = {usdt}
    Stage = "compatibility"
    LeaseMax = 1
    MaxTime = 0
    MaxGen = 1
    NoUid = NoUid
    NoLease = NoLease
SYMMETRY Interchangeable
INVARIANTS
    NoGhostSubscriber
    OneOwner
CHECK_DEADLOCK FALSE
