\* Revisions that may overlap, and a store that may fail.
SPECIFICATION Spec
CONSTANTS
    Processes = {p1, p2}
    NoKey = NoKey
    Keys <- MCFewKeys
    Recurring <- MCFewRecurring
    Ttl <- MCFewTtl
    RevisionsOverlap = TRUE
    StorageMayFail = TRUE
    MaxTime = 4
SYMMETRY RevisionSymmetry
INVARIANTS TypeOK SuppressedOnlyInWindow
PROPERTIES CooldownSurvivesRedeploy
