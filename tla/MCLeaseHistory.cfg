CONSTANTS
    Resource = {a}
    Holder = {h1, h2}
    Ttl = {1}
    CohortMax = 2
    MaxClock = 1
    MaxSequence = 3
    None = None
SPECIFICATION Spec
INVARIANTS
    OneEffectiveLease
    MatchingReleaseSucceeds
    FencedWritesHoldNewestLease
    RefutedStaysRefuted
    ExclusiveReliance
PROPERTIES
    ImplementsLease
CHECK_DEADLOCK FALSE
SYMMETRY MCSymmetry
