\* FX supported but FX_TOPIC_ENABLED off: an anonymous subscription, then an ack.
SPECIFICATION Spec
CONSTANTS
    Conn = {c1}
    Uid = {u1}
    Publisher = {p1}
    Topic = {fx, usdt}
    FxTopic = {fx}
    GatedTopic = {}
    Supported = {fx, usdt}
    Enabled = {usdt}
    Stage = "compatibility"
    LeaseMax = 1
    MaxTime = 0
    MaxGen = 1
    NoUid = NoUid
    NoLease = NoLease
INVARIANTS
    AckConsistent
CHECK_DEADLOCK FALSE
