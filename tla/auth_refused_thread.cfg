\* A submit that raises behind a queued item.
SPECIFICATION Spec
CONSTANTS
    Call = {a1, a2}
    Workers = 2
    NoCall = NoCall
SYMMETRY Interchangeable
INVARIANTS
    QueuedNeverNegative
