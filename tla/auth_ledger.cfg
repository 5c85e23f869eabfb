\* Two calls, two threads, failing notes, restarts of the pool.
SPECIFICATION FairSpec
CONSTANTS
    Call = {a1, a2}
    Workers = 2
    NoCall = NoCall
INVARIANTS
    LedgerBalanced
    InFlightAccounted
PROPERTIES
    PoolsNeverOverlap
    CallReturns
    ShutdownEnds
