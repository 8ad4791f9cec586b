\* Two overlapping revisions, a bucket that may fail, over a midnight.
SPECIFICATION BudgetSpec
CONSTANTS
    Processes = {p1, p2}
    Vms = {v1, v2, v3}
    NoVm = NoVm
    MaxPerDay = 1
    MaxFailures = 3
    LastDay = 1
SYMMETRY BudgetSymmetry
INVARIANTS BudgetTypeOK OvershootBounded RefusedOnlyWhenSpent
