\* Two callers publish one asset: three contents, three faults.
SPECIFICATION Spec
CONSTANTS
    Callers = {c1, c2}
    MaxRev = 3
    MaxSeq = 4
    MaxFaults = 3
    None = None
INVARIANTS
    MarkerNeverOutrun
    SequenceNeverRegresses
PROPERTIES
    PublishesOnce
CHECK_DEADLOCK FALSE
