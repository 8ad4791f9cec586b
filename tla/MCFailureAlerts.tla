--------------------------- MODULE MCFailureAlerts --------------------------
(* FailureAlerts with windows in the proportions of the code: the service  *)
(* breaker 60 s, 5 errors, 30 s cooldown, 60 s deduplication; the rules'   *)
(* 30 min, 3 errors, 30 min cooldown, 1 h deduplication.                   *)
EXTENDS FailureAlerts

PerKind(service, rules) == [k \in Kinds |-> IF k = "service_error" THEN service ELSE rules]
MCWindow == PerKind(2, 2)
MCThreshold == PerKind(4, 3)
MCCooldown == PerKind(1, 2)
MCDedupWindow == PerKind(2, 4)

=============================================================================
