---------------------------- MODULE MCTypedEvents ----------------------------
(***************************************************************************)
(* One behaviour for each family of events, with readings on both sides of *)
(* every threshold; the redeliveries are those of the specification.       *)
(***************************************************************************)
EXTENDS TypedEvents

P(type, what, stamp) ==
  [type |-> type, about |-> "x", what |-> what, reading |-> 0, limit |-> 0, stamp |-> stamp,
   valid |-> TRUE, flags |-> {}, shape |-> "flat"]

Reads(p, reading, limit) == [p EXCEPT !.reading = reading, !.limit = limit]
Raises(p, flags) == [p EXCEPT !.flags = flags]
Shaped(p, shape) == [p EXCEPT !.shape = shape]
Garbled(p) == [p EXCEPT !.valid = FALSE]

Aged(reading) == Reads(P("ML_SIGNAL_STALENESS", "", 0), reading, 0)
Call(p) == Shaped(p, "call")
Recon(reading, stamp) == Call(Reads(P("reconciliation", "", stamp), reading, 0))

MCTraffic ==
  { {P("KillSwitchArmedEvent", "KILL_ALL_LIVE", 1), P("KillSwitchArmedEvent", "KILL_PER_VENUE", 2),
     P("KillSwitchDisarmEvent", "MANUAL_UNKILL", 3)},
    {P("KillSwitchDisarmEvent", "AUTO_COOLDOWN", 1), Garbled(P("KillSwitchArmedEvent", "KILL_ALL_LIVE", 2)),
     P("RiskRuleFiredEvent", "RISK_LIMIT", 3)},
    {P("CircuitBreakerFired", "KILL_ALL", 1), P("CircuitBreakerFired", "CANCEL_OPEN", 2),
     P("CircuitBreakerFired", "BLOCK_NEW", 3)},
    {P("MarginEvent", "WARNING", 1), P("MarginEvent", "LIQUIDATION", 2),
     P("BATCH_LIVE_RECON_DRIFT", "", 3)},
    {P("CONSOLIDATOR_DOWN", "", 0), Reads(P("CONSOLIDATOR_DOWN", "", 0), 1, 0),
     P("CONSOLIDATOR_RECOVERED", "", 0),
     Reads(P("MANIFEST_CONSOLIDATION_STALLED", "", 0), 3, 0)},
    {Aged(3), Aged(11), Aged(23), Aged(24), [Aged(24) EXCEPT !.stamp = 1]},
    {Garbled(Aged(24)), P("ML_MODEL_DRIFT_DETECTED", "ML_MODEL_DRIFT_DETECTED", 1)},
    {Shaped(P("ML_PNL_DEVIATION", "ML_PNL_DEVIATION", 1), "envelope"),
     Shaped(P("CONSOLIDATOR_DOWN", "", 1), "hollow envelope"),
     Shaped(P("MarginEvent", "LIQUIDATION", 1), "undecodable"),
     Shaped(P("MarginEvent", "LIQUIDATION", 2), "number")},
    {Reads(P("DEFI_FEATURE_WEETH_ETH_RATE", "", 0), 20, 0), Reads(P("DEFI_FEATURE_WEETH_ETH_RATE", "", 0), 30, 0),
     Reads(P("DEFI_FEATURE_WEETH_ETH_RATE", "", 0), 60, 0)},
    {Reads(P("DEFI_FEATURE_AAVE_UTILIZATION", "", 0), 9501, 9500), Reads(P("DEFI_FEATURE_PERP_FUNDING_RATE", "short", 0), -1, 0),
     Reads(P("DEFI_FEATURE_STALENESS", "", 0), 61, 30)},
    {Recon(1799, 1), Recon(1800, 2),
     Reads(P("RECONCILIATION_AGE", "RECONCILIATION_AGE", 3), 1800, 0)},
    {Raises(Garbled(Recon(0, 1)), {"UNKNOWN_NET_EXPOSURE", "OPEN_ORDERS_UNCONFIRMABLE"})},
    {Call(Reads(P("incident", "AUTO_ACTION_SUCCEEDED", 1), 3, 0)), Call(P("legacy", "SEV1", 0)),
     Call(P("legacy", "P3", 0))} }

MCTransitions == {<<"AUTO_ACTION_SUCCEEDED", "RECOVERY_VERIFICATION_STARTED">>,
                  <<"RECOVERY_VERIFICATION_STARTED", "RECOVERY_CONFIRMED">>,
                  <<"RECOVERY_VERIFICATION_STARTED", "RECOVERY_UNCERTAIN">>}
==============================================================================
