CONSTANTS
    Request = {r1, r2, r3}
    Large = r3
    Size <- MCSize
    Based = {r2}
    CohortMaxFrames = 2
    CohortMaxBytes = 2
    HeaderDeflate = FALSE
    MaxSequence = 9
    MaxBoots = 1
    MaxCancels = 1
    MaxFailures = 1
SPECIFICATION Spec
INVARIANTS
    AckedIsPublished
    RefusedNeverCommits
    OptimisticSound
PROPERTIES
    FencedUntilRestart
CHECK_DEADLOCK FALSE
