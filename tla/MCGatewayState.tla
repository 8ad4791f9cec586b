---------------------------- MODULE MCGatewayState --------------------------
(* Instances of GatewayState.  The policies keep the order of the real     *)
(* ones: a CRITICAL incident is due within the hour an ESCALATE_TO_HUMAN   *)
(* grants, a HIGH one after it, and INFO has no deadline.                  *)
EXTENDS GatewayState, TLC

MCStates == {"AUTO_ACTION_SUCCEEDED", "SAFE_MODE_ACTIVE", "RESOLVED"}
MCLeadsToSafe == {"AUTO_ACTION_SUCCEEDED", "SAFE_MODE_ACTIVE"}
MCSeverities == {"CRITICAL", "HIGH", "INFO"}
Rungs(default, secondary, founder, pager) ==
    [default |-> default, secondary |-> secondary, founder |-> founder, physical_pager |-> pager]
MCSla == [s \in MCSeverities |->
            CASE s = "CRITICAL" -> Rungs(1, 2, 3, 3)
              [] s = "HIGH" -> Rungs(3, 3, 4, None)
              [] s = "INFO" -> Rungs(None, None, None, None)]

Incidents == Permutations(Keys)

=============================================================================
