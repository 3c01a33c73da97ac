\* Two calls to a server of either kind or to an object, one fault; the Bun
\* calls have the request ids 1 and 2.
SPECIFICATION Spec
CONSTANTS
    Call = {c1, c2}
    Asks <- MCAsks
    Engine = {"jvm", "native", "object"}
    MaxDepth = 11
    MaxNodes = 90
    MaxBody = 100
    MaxBatchActions = 2
    MaxRequestId = 2
    MaxFaults = 1
INVARIANTS
    OutcomesTrue
    AnswersReadable
SYMMETRY Symmetry
CHECK_DEADLOCK FALSE
