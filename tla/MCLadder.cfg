\* Overlapping revisions, a bucket that fails.
SPECIFICATION Spec
CONSTANTS
    Processes = {p1, p2}
    Identities = {i1}
    NoIdentity = NoIdentity
    Second = 2
    Window = 4
    Threshold = 3
    MaxRung = 2
    StorageMayFail = TRUE
SYMMETRY LadderSymmetry
INVARIANTS TypeOK QuietBelowThreshold
PROPERTY OneAlarmPerWindow
