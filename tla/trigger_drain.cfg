\* One FX topic, routed to usdt:krw for some banks; two crawler threads, one feed.
SPECIFICATION FairSpec
CONSTANTS
    Fx = {usd}
    Tether = usdt
    Cross = {usd}
    Worker = {w1, w2}
    Feed = {f1}
    MaxStored = 2
INVARIANTS
    Bookkeeping
    FxDrained
PROPERTIES
    PublishedInOrder
    FlushCoversItsRequests
    DrainEnds
CHECK_DEADLOCK FALSE
