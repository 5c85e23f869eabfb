\* One connection, mixed, renewed and anonymous requests.
SPECIFICATION Spec
CONSTANTS
    Conn = {c1}
    Uid = {u1}
    Publisher = {p1}
    Topic = {fx, usdt, krx}
    FxTopic = {fx}
    GatedTopic = {krx}
    Supported = {fx, usdt, krx}
    Enabled = {fx, usdt, krx}
    Stage = "reject_anonymous_fx"
    LeaseMax = 2
    MaxTime = 2
    MaxGen = 0
    NoUid = NoUid
    NoLease = NoLease
INVARIANTS
    AckConsistent
    AnonymousOnlyWhereFree
PROPERTIES
    RenewalNeverWeakens
CHECK_DEADLOCK FALSE
