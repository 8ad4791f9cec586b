--------------------------- MODULE TypedHandlers ---------------------------
(***************************************************************************)
(* What the typed handlers make of a payload: the alerts they hand to the  *)
(* router, in order.  They keep no state; the state is in TypedEvents.     *)
(*                                                                         *)
(* A payload is what it is about, the closed-set value it carries (what),  *)
(* its number (reading) with the limit it is held against, what tells this *)
(* emission from the last (stamp), the predicates it raises (flags),       *)
(* whether it is one of its kind (valid), and the bytes it came in         *)
(* (shape), or that it is no message but the argument of a call ("call").  *)
(* Readings are whole numbers in the unit the code compares in.            *)
(***************************************************************************)
EXTENDS Integers, Sequences, SequencesExt

\* topic and about: the subject people follow; name and severity: what they
\* are told of it; mark: the rest of the identity the deduplicator hashes;
\* detail: what else it says, an age or a text, that is left out of the hash.
Alert(topic, name, severity, mark, p) ==
  [topic |-> topic, about |-> p.about, name |-> name, severity |-> severity, mark |-> mark,
   detail |-> <<p.reading, p.stamp>>]

(***************************************************************************)
(* Kill switches, circuit breakers, risk rules, margin.  Each of these     *)
(* carries a time or an event id of its own into the identity.             *)
(***************************************************************************)
ArmSeverity(switch) ==
  IF switch \in {"KILL_ALL_LIVE", "KILL_PER_WALLET", "KILL_PER_ASSET_GROUP"}
  THEN "CRITICAL" ELSE "HIGH"

KillSwitchArmed(p) == <<Alert("kill_switch", "KILL_SWITCH_ARMED", ArmSeverity(p.what), p.stamp, p)>>

RecoveryCode == [AUTO_COOLDOWN |-> "KILL_SWITCH_AUTO_RECOVERED",
                 MANUAL_UNKILL |-> "KILL_SWITCH_MANUAL_UNKILLED"]

KillSwitchDisarm(p) == <<Alert("kill_switch", RecoveryCode[p.what], "INFO", p.stamp, p)>>

\* An action the registry does not know is a warning.
BreakerSeverity(action) == CASE action = "KILL_ALL" -> "CRITICAL"
                             [] action = "CANCEL_OPEN" -> "HIGH"
                             [] OTHER -> "WARN"

BreakerFired(p) == <<Alert("breaker", "CIRCUIT_BREAKER_FIRED", BreakerSeverity(p.what), p.stamp, p)>>

\* The alert code is the event name.
RiskRule(p) == <<Alert("risk_rule", p.what, "coded", p.stamp, p)>>

MarginName == [INFO |-> "MARGIN_INFO", WARNING |-> "MARGIN_WARNING",
               CRITICAL |-> "MARGIN_CRITICAL", LIQUIDATION |-> "MARGIN_LIQUIDATION"]

Margin(p) == <<Alert("margin", MarginName[p.what], p.what, p.stamp, p)>>

\* Both drift events page CRITICAL; the run id is in the identity.
Drift(p) == <<Alert("drift", p.type, "CRITICAL", p.stamp, p)>>

(***************************************************************************)
(* Consolidator.  Nothing tells one DOWN of a bucket from the next: the    *)
(* heartbeat age is not part of the identity.  A stall has its streak.     *)
(***************************************************************************)
ConsolidatorDown(p) == <<Alert("consolidator", "CONSOLIDATOR_DOWN", "CRITICAL", 0, p)>>
ConsolidatorRecovered(p) == <<Alert("consolidator", "CONSOLIDATOR_RECOVERED", "INFO", 0, p)>>
ConsolidationStalled(p) ==
  <<Alert("stall", "MANIFEST_CONSOLIDATION_STALLED", "CRITICAL", p.reading, p)>>

(***************************************************************************)
(* The staleness ladder of the ML signals, in hours, and the events that   *)
(* pass through unchanged.  The age in hours is in the identity.           *)
(***************************************************************************)
WarnHours == 4
CriticalHours == 12
KillHours == 24

ModelFailure == "KILL_SWITCH_ML_MODEL_FAILURE"

\* An underscored operator is a wrong version of the definition it is named
\* after that the properties must tell apart.
Staleness_CriticalFirst(p) ==
  CASE p.reading < WarnHours -> <<>>
    [] p.reading >= WarnHours /\ p.reading < CriticalHours ->
         <<Alert("model", "ML_SIGNAL_STALENESS", "warning", p.reading, p)>>
    [] OTHER -> <<Alert("model", "ML_SIGNAL_STALENESS", "critical", p.reading, p)>>

Staleness(p) ==
  CASE p.reading < WarnHours -> <<>>
    [] p.reading >= KillHours -> <<Alert("model", ModelFailure, "critical", p.reading, p)>>
    [] p.reading >= CriticalHours /\ p.reading < KillHours ->
         <<Alert("model", "ML_SIGNAL_STALENESS", "critical", p.reading, p)>>
    [] OTHER -> <<Alert("model", "ML_SIGNAL_STALENESS", "warning", p.reading, p)>>

PassThrough(p) == <<Alert("plain", p.what, "unset", p.stamp, p)>>

(***************************************************************************)
(* DeFi features: a rule that does not fire gives no alert.  The reading   *)
(* is among the details, so in the identity.                               *)
(***************************************************************************)
Fires(condition, name, severity, p) ==
  IF condition THEN <<Alert("defi", name, severity, p.reading, p)>> ELSE <<>>

\* reading: tenths of a percent away from 1.0.
WeethDepeg(p) ==
  Fires(p.reading > 20, "DEFI_WEETH_DEPEG", IF p.reading > 50 THEN "critical" ELSE "warning", p)

\* limit: the threshold of the archetype; both in basis points of one.
AaveUtilization(p) == Fires(p.reading > p.limit, "DEFI_AAVE_UTILIZATION_SPIKE", "warning", p)

FundingRateFlip(p) == Fires(p.what = "short" /\ p.reading < 0, "DEFI_FUNDING_RATE_FLIP", "warning", p)

\* limit: the SLA; an SLA of zero says nothing.
FeatureStale(p) == Fires(p.limit > 0 /\ p.reading > 2 * p.limit, "DEFI_FEATURE_STALE", "warning", p)

\* The dispatch of the feature events.
DefiFeature(p) == CASE p.type = "DEFI_FEATURE_WEETH_ETH_RATE" -> WeethDepeg(p)
                    [] p.type = "DEFI_FEATURE_AAVE_UTILIZATION" -> AaveUtilization(p)
                    [] p.type = "DEFI_FEATURE_PERP_FUNDING_RATE" -> FundingRateFlip(p)
                    [] p.type = "DEFI_FEATURE_STALENESS" -> FeatureStale(p)

(***************************************************************************)
(* Reconciliation age and the immediate-SEV0 predicates.  Only the         *)
(* critical band is routed; the alert id carries the second it was made.   *)
(***************************************************************************)
AgeCritical == 1800

AgeRule(p) == CASE p.reading < 300 -> "none"
                [] p.reading >= 300 /\ p.reading < 900 -> "RECONCILIATION_AGE_WARN"
                [] p.reading >= 900 /\ p.reading < AgeCritical -> "RECONCILIATION_AGE_INVESTIGATE"
                [] OTHER -> "RECONCILIATION_AGE_CRITICAL"

Reported(override, p) == IF override \in p.flags THEN <<override>> ELSE <<>>

\* The predicates, in the order they are looked at.
Raised(p) ==
  Reported("UNKNOWN_NET_EXPOSURE", p) \o Reported("OPEN_ORDERS_UNCONFIRMABLE", p)
  \o Reported("KILL_SWITCH_CANNOT_CONFIRM_CANCEL", p) \o Reported("VENUE_INTERNAL_BALANCE_MISMATCH", p)
  \o Reported("POSITION_EXISTS_EXTERNALLY_UNKNOWN_INTERNALLY", p)
  \o Reported("MATERIAL_BALANCE_MOVEMENT_UNEXPLAINED", p)
  \o Reported("MARGIN_COLLATERAL_SAFETY_UNCERTAIN", p)

\* The critical breaches of a payload: an age that does not parse is none, and
\* the predicates are looked at all the same.
Breaches(p) ==
  (IF p.valid /\ AgeRule(p) = "RECONCILIATION_AGE_CRITICAL" THEN <<AgeRule(p)>> ELSE <<>>)
  \o Raised(p)

ReconciliationAge(p) == [i \in DOMAIN Breaches(p) |->
                           Alert(Breaches(p)[i], Breaches(p)[i], "CRITICAL", p.stamp, p)]

\* The blast radius decides what is frozen: the whole account or the symbol.
AccountWide == {"UNKNOWN_NET_EXPOSURE", "MATERIAL_BALANCE_MOVEMENT_UNEXPLAINED",
                "MARGIN_COLLATERAL_SAFETY_UNCERTAIN", "KILL_SWITCH_CANNOT_CONFIRM_CANCEL"}

EveryInstrument == "*"

FreezeScope_Symbol(breach, p) == p.about

FreezeScope(breach, p) == IF breach \in AccountWide THEN EveryInstrument ELSE p.about

\* arm_recon_freeze_for_alerts: one freeze for each breach, in their order.
Freezes(p) == [i \in DOMAIN Breaches(p) |-> FreezeScope(Breaches(p)[i], p)]
============================================================================
