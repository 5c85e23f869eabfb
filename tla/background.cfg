\* One browser queue of four banks, one alert, one exchange, two sockets, two
\* verifications of one user, one session close, two crawler rounds.
SPECIFICATION Spec
CONSTANTS
    Bank = {b1, b2, b3, b4}
    SoftLimit = 2
    Capacity = 3
    NoBank = NoBank
    Task = {a1, a2}
    Level = {1, 2}
    Rate = {1}
    MaxEpoch = 3
    MaxFaults = 1
    MaxThreads = 1
    None = None
    MaxTime = 4
    Grain = 2
    MaxPending = 2
    MaxStrays = 1
    Conn = {c1, c2}
    MaxVersion = 3
    Call = {v1, v2}
    FreshTTL = 1
    StaleTTL = 2
    PendingTTL = 1
    MaxCall = 1
    MaxNow = 5
    CloseFaults = 2
    Inv = {i1, i2}
    Round = {r1, r2}
    Close = 1
    Expiry = 3
    Late = 1
    Freshness = 1
    Skew = 1
    Offset = {0, 2}
    MaxMinute = 4
INVARIANTS
    QueueSound
    OnePushPerArming
    NoTickForgotten
    NobodyLeftBehind
    VerdictTrusted
    CloseSettled
    LedgerTruth
PROPERTIES
    LatestNeverRegresses
CHECK_DEADLOCK FALSE
