\* One incident through every sequence of requests and escalation passes.
SPECIFICATION Spec
CONSTANTS
    Keys = {i1}
    Unknown = Unknown
    States <- MCStates
    SafeMode = "SAFE_MODE_ACTIVE"
    LeadsToSafe <- MCLeadsToSafe
    Severities <- MCSeverities
    Critical = "CRITICAL"
    Sla <- MCSla
    EscalateWindow = 2
    MaxTime = 7
INVARIANTS TypeOK NoneForgotten StepsFireOnce
PROPERTY SilentAfterAck
