\* Two creators over two outputs, two servers of two transactions each, and
\* one power loss.
SPECIFICATION Spec
CONSTANTS
    Creator = {c1, c2}
    Output = {o1, o2}
    MaxTransactions = 2
    MaxPowerLosses = 1
SYMMETRY Symmetry
INVARIANTS
    CommittedIsExact
    ReportedIsKept
CHECK_DEADLOCK FALSE
