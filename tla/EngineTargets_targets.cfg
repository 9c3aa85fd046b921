SPECIFICATION Spec
CONSTANTS
    a = a
    b = b
    r = r
    Paths = {p1}
    Contents = {a, b}
    Gone = Gone
    Rules = {r}
    Reports <- ReportsOne
    Jobs = {j1, j2}
    Limit = 2
    FixLimit = 2
    MaxBusy = 1
    MaxRetries = 1
    Ops <- OpsAll
    MaxOps = 4
    MaxFaults = 1
SYMMETRY Symmetry
INVARIANTS ReportedIsOpen  InFlightHasTask
CHECK_DEADLOCK FALSE
