\* The shapes of one recurring CRITICAL condition; two coalesced signals and a drill; one event of each other family, live and replayed.
SPECIFICATION Spec
CONSTANTS
    Traffic <- MCTraffic
    Rules <- MCRules
    DefaultWindow = 2
    BacklogWindow = 4
    CoalesceWindow = 1
    PagerDutySuppressed = FALSE
    MaxTime <- MCMaxTime
    MaxReplayed = 3
INVARIANTS TypeOK OnePagePerWindow StalenessHeldBackBriefly DrillsAreSilent
CHECK_DEADLOCK FALSE
