\* A finding of either shape, of a name with or without a cooldown of its own;
\* slow calls, crashes, POSTs that are refused, and a secret that is not found.
SPECIFICATION FairSpec
CONSTANTS
    Second = 2
    Window = 4
    Threshold = 3
    MaxRung = 1
    Kinds <- MCKinds
    DefaultDedup = 0
    Cadence = 1
    CallTime = 1
    Findings <- MCFindings
    GithubMayFail = TRUE
    SecretMayFail = TRUE
    MaxCrashes = 1
INVARIANTS TypeOK 
PROPERTIES PersistentFindingDispatched LoudOncePerWindow NoRedispatchWithoutActivity
