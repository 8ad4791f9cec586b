\* Breakers that are probed, as the class provides and its unit tests drive it.
SPECIFICATION Spec
CONSTANTS
    Window <- MCWindow
    Threshold <- MCThreshold
    Cooldown <- MCCooldown
    DedupWindow <- MCDedupWindow
    Probing = TRUE
    MaxErrors = 4
    MaxTime = 6
INVARIANTS TypeOK CrashLoopEscalates OpensOnStrikesOnly EscalationIsDelivered
