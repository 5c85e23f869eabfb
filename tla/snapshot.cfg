\* Two callers, one permit, one publish: bookkeeping, freshness and liveness.
SPECIFICATION FairSpec
CONSTANTS
    Topic = {t1}
    Caller = {c1, c2}
    Flight = {f1, f2}
    Permits = 1
    MaxGen = 1
    NoFlight = NoFlight
    NoEntry = NoEntry
    NoRead = NoRead
INVARIANTS
    Bookkeeping
    OneBuildPerKey
    FreshSnapshot
PROPERTIES
    EverythingEnds
