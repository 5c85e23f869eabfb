\* A trigger accepted while the flush is sending.
SPECIFICATION Spec
CONSTANTS
    Fx = {usd}
    Tether = usdt
    Cross = {}
    Worker = {w1, w2}
    Feed = {}
    MaxStored = 2
SYMMETRY Interchangeable
INVARIANTS
    RequestHasFuturePublish
CHECK_DEADLOCK FALSE
