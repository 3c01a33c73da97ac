CONSTANTS
    Request = {r1, r2}
    Large = r2
    Size <- MCSize
    Based = {r2}
    CohortMaxFrames = 2
    CohortMaxBytes = 2
    HeaderDeflate = FALSE
    MaxSequence = 9
    MaxBoots = 3
    MaxCancels = 1
    MaxFailures = 1
SPECIFICATION FairSpec
INVARIANTS
    RootMatchesFile
PROPERTIES
    TornTailNeverBuried
    ImplementsAtomicHistory
    EveryRequestAnswered
    ShutdownCompletes
CHECK_DEADLOCK FALSE
