CONSTANTS
    Triple = {t1, t2}
    MaxSequence = 4
    MaxOperations = 4
SPECIFICATION Spec
SYMMETRY Symmetry
INVARIANTS
    LivenessIsDerived
    WithdrawsNewestLive
PROPERTIES
    LoadReproducesFold
CHECK_DEADLOCK FALSE
