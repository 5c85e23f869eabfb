\* The cut-over from v1 to v2: two database revisions, three starts of the application.
SPECIFICATION FairSpec
CONSTANTS
    MaxRev = 2
    MaxBoots = 3
    None = None
INVARIANTS
    QuietOnceDrained
    VerifiedMeansMigrated
    GateOpensOnlyOnV2
    SwitchSound
PROPERTIES
    NoDowngrade
    MirrorRepairs
CHECK_DEADLOCK FALSE
