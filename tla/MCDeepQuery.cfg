\* A deep fact is written and queried on the native server.
SPECIFICATION Spec
CONSTANTS
    Call = {c1, c2}
    Asks <- MCAsks
    Engine = {"native"}
    MaxDepth = 11
    MaxNodes = 90
    MaxBody = 100
    MaxBatchActions = 2
    MaxRequestId = 2
    MaxFaults = 0
INVARIANTS
    QueriesEncode
CHECK_DEADLOCK FALSE
