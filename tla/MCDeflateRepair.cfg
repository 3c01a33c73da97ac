CONSTANTS
    Request = {r1, r2}
    Large = r2
    Size <- MCSize
    Based = {r2}
    CohortMaxFrames = 2
    CohortMaxBytes = 3
    HeaderDeflate = TRUE
    MaxSequence = 9
    MaxBoots = 2
    MaxCancels = 1
    MaxFailures = 1
SPECIFICATION Spec
INVARIANTS
    FramesDecode
CHECK_DEADLOCK FALSE
