----------------------------- MODULE TypedEvents -----------------------------
(***************************************************************************)
(* The closed-set events: the dispatch table, the typed handlers behind it *)
(* (TypedHandlers, IncidentGate), the deduplication every one of their     *)
(* alerts goes through, and the two things besides telling people that     *)
(* they set off: the kill-switch bus and the reconciliation freezes, which *)
(* the execution side applies.  A message may be delivered again at any    *)
(* time; messages are handled one at a time.  Time passes, operators lift  *)
(* freezes and the service restarts at any point, the middle of a handling *)
(* included.                                                               *)
(*                                                                         *)
(* The reconciliation handler and the incident path are entry points that  *)
(* no event leads to and nothing in the service calls.  A payload may be   *)
(* the argument of such a call instead of a message.                       *)
(***************************************************************************)
EXTENDS IncidentGate

CONSTANTS
  Traffic,          \* sets of payloads: what one behaviour is about
  DefaultWindow,    \* the deduplicator's window
  RecurringWindow,  \* the window of an event with a cooldown of its own
  MaxTime           \* bounds the clock

ASSUME EventsAssumption == /\ {DefaultWindow, RecurringWindow, MaxTime} \subseteq Nat
                           /\ Transitions \subseteq STRING \X STRING

ASSUME TrafficAssumption ==
  Traffic \subseteq SUBSET [type : STRING, about : STRING, what : STRING, reading : Int, limit : Int,
                            stamp : Int, valid : BOOLEAN, flags : SUBSET STRING, shape : STRING]

VARIABLES
  now,
  arriving,  \* the payloads of this behaviour
  hand,      \* the message being handled, if any: its payload, its alerts to come
  router,    \* seen: in memory; cooldown: in the bucket; each a time by identity
  people,    \* history by subject: the latest alert, and the last one told
  fired,     \* the models the kill-switch bus was fired for
  broken,    \* history: the models whose handling failed, or the bus with it
  frozen,    \* the instruments the execution side takes no orders for
  owed       \* history: halts that follow from what was handled without a failure

eventsVars == <<now, arriving, hand, router, people, fired, broken, frozen, owed>>

Nothing == <<>>

\* An envelope gives its details, or nothing but the event when it has none; a
\* flat payload stays as it is.
Unwrapped(p) ==
  IF p.shape = "hollow envelope"
  THEN [p EXCEPT !.about = "unknown", !.what = "", !.reading = 0, !.valid = FALSE, !.flags = {}]
  ELSE p

\* What the subscriber makes of the bytes of a message (its shape): bytes that
\* do not decode become an event of their own; JSON that is no object raises.
Received(p) ==
  CASE p.shape = "undecodable" ->
         [p EXCEPT !.type = "MALFORMED_EVENT", !.about = "unknown", !.what = "MALFORMED_EVENT",
                   !.stamp = 0, !.flags = {}]
    [] p.shape = "number" -> [p EXCEPT !.type = "unread"]
    [] OTHER -> Unwrapped(p)

(***************************************************************************)
(* Dispatch.                                                               *)
(***************************************************************************)
DefiFeatures == {"DEFI_FEATURE_WEETH_ETH_RATE", "DEFI_FEATURE_AAVE_UTILIZATION",
                 "DEFI_FEATURE_PERP_FUNDING_RATE", "DEFI_FEATURE_STALENESS"}

\* A payload these do not accept is logged, or raises, and tells nothing.
Validated == {"KillSwitchArmedEvent", "KillSwitchDisarmEvent", "CircuitBreakerFired",
              "RiskRuleFiredEvent", "MarginEvent", "BATCH_VS_LIVE_RECON_DRIFTED",
              "BATCH_LIVE_RECON_DRIFT", "ML_SIGNAL_STALENESS"} \cup DefiFeatures

\* An event of any other name, one about reconciliation included, goes to the
\* router as it is.  The failures and the dependencies have components of their
\* own (FailureAlerts, DependencyHealth).
Dispatched(p) ==
  CASE p.type = "KillSwitchArmedEvent" -> KillSwitchArmed(p)
    [] p.type = "KillSwitchDisarmEvent" -> KillSwitchDisarm(p)
    [] p.type = "CircuitBreakerFired" -> BreakerFired(p)
    [] p.type = "RiskRuleFiredEvent" -> RiskRule(p)
    [] p.type = "MarginEvent" -> Margin(p)
    [] p.type \in {"BATCH_VS_LIVE_RECON_DRIFTED", "BATCH_LIVE_RECON_DRIFT"} -> Drift(p)
    [] p.type = "CONSOLIDATOR_DOWN" -> ConsolidatorDown(p)
    [] p.type = "CONSOLIDATOR_RECOVERED" -> ConsolidatorRecovered(p)
    [] p.type = "MANIFEST_CONSOLIDATION_STALLED" -> ConsolidationStalled(p)
    [] p.type \in DefiFeatures -> DefiFeature(p)
    [] p.type = "ML_SIGNAL_STALENESS" -> Staleness(p)
    [] OTHER -> PassThrough(p)

\* handle_reconciliation_age_payload, route_incident, route_legacy_alert.
Called(p, verdicts) ==
  CASE p.type = "reconciliation" -> ReconciliationAge(p)
    [] p.type = "incident" -> RouteIncident(p, verdicts)
    [] OTHER -> RouteLegacy(p)

Alerts(p, verdicts) ==
  CASE p.shape = "call" -> Called(p, verdicts)
    [] p.shape # "call" /\ (p.type = "unread" \/ (p.type \in Validated /\ ~p.valid)) -> <<>>
    [] OTHER -> Dispatched(p)

(***************************************************************************)
(* The state.                                                              *)
(***************************************************************************)
\* A map is a function whose domain is what has been noted in it so far.
AreTimes(map) == \A key \in DOMAIN map : map[key] \in 0 .. now

Payloads == {Received(p) : p \in arriving}

\* What p may bring, the verdicts being what they are.
Bringing(p) == UNION {ToSet(Alerts(p, verdicts)) : verdicts \in [Services -> Verdicts]}

EventsTypeOK ==
  /\ now \in 0 .. MaxTime /\ arriving \in Traffic
  /\ \A m \in hand : m.payload \in Payloads /\ m.alerts \in Seq(Bringing(m.payload))
  /\ AreTimes(router.seen) /\ AreTimes(router.cooldown)
  /\ DOMAIN people.told \subseteq DOMAIN people.latest
  /\ frozen \subseteq {EveryInstrument} \cup {p.about : p \in Payloads}

EventsInit ==
  /\ now = 0 /\ arriving \in Traffic /\ hand = {}
  /\ router = [seen |-> Nothing, cooldown |-> Nothing]
  /\ people = [latest |-> Nothing, told |-> Nothing]
  /\ fired = {} /\ broken = {} /\ frozen = {} /\ owed = {}

(***************************************************************************)
(* Deduplication, as in AlertRouter, of what comes from the handlers.      *)
(***************************************************************************)
Subject(a) == <<a.topic, a.about>>

\* What is hashed: the name and every detail that is not volatile.
Identity(a) == [name |-> a.name, about |-> a.about, severity |-> a.severity, mark |-> a.mark]

IsRecurring(a) == a.name = "CONSOLIDATOR_DOWN"

Window(a) == IF IsRecurring(a) THEN RecurringWindow ELSE DefaultWindow

IsDuplicate(a) ==
  LET i == Identity(a)
  IN  \/ /\ IsRecurring(a) /\ i \in DOMAIN router.cooldown
         /\ now - router.cooldown[i] < Window(a)
      \/ i \in DOMAIN router.seen /\ now - router.seen[i] <= Window(a)

\* One more thing noted in a map, under a condition.
Noted(condition, map, key, value) ==
  IF condition
  THEN [k \in DOMAIN map \cup {key} |-> IF k = key THEN value ELSE map[k]]
  ELSE map

\* An underscored operator is a wrong version of the definition it is named
\* after that the properties must tell apart.
Claimed_Deadline(a, new) ==
  [seen |-> Noted(new, router.seen, Identity(a), now),
   cooldown |-> Noted(new /\ IsRecurring(a), router.cooldown, Identity(a), now + Window(a))]

Claimed(a, new) ==
  [seen |-> Noted(new, router.seen, Identity(a), now),
   cooldown |-> Noted(new /\ IsRecurring(a), router.cooldown, Identity(a), now)]

(***************************************************************************)
(* Handling.  The alerts are routed one by one, then the freezes are       *)
(* published.                                                              *)
(***************************************************************************)
\* A message is read and dispatched, or an entry point called, once the one before
\* is done with.
Receive(p) ==
  /\ hand = {}
  /\ \E verdicts \in [Services -> Verdicts] :
       hand' = {[payload |-> Received(p), alerts |-> Alerts(Received(p), verdicts)]}
  /\ UNCHANGED <<now, arriving, router, people, fired, broken, frozen, owed>>

\* One alert through the router: what it remembers, what people hear, and the
\* kill-switch bus.  A bus that raises is logged and passed over.
RouteAlert(m) ==
  /\ m.alerts # <<>>
  /\ LET a == Head(m.alerts)
         new == ~IsDuplicate(a)
         halts == {x \in {a.about} : new /\ a.name = ModelFailure}
     IN  /\ router' = Claimed(a, new)
         /\ people' = [latest |-> Noted(TRUE, people.latest, Subject(a), a),
                       told |-> Noted(new, people.told, Subject(a), a)]
         /\ \/ fired' = fired \cup halts /\ UNCHANGED broken
            \/ broken' = broken \cup halts /\ UNCHANGED fired
  /\ hand' = {[payload |-> m.payload, alerts |-> Tail(m.alerts)]}
  /\ UNCHANGED <<now, arriving, frozen, owed>>

\* A routing that raises does so before the claim or after: the alert is not told,
\* and if claimed it stands in the way of its own repetition all the same.  No
\* other alert is routed and nothing is frozen.
RoutingRaises(m) ==
  /\ m.alerts # <<>>
  /\ \E claimed \in BOOLEAN :
       router' = Claimed(Head(m.alerts), claimed /\ ~IsDuplicate(Head(m.alerts)))
  /\ broken' = broken \cup {m.payload.about}
  /\ hand' = {}
  /\ UNCHANGED <<now, arriving, people, fired, frozen, owed>>

IsReconciliation(p) == p.shape = "call" /\ p.type = "reconciliation"

FreezesOf(p) == IF IsReconciliation(p) THEN Freezes(p) ELSE <<>>

\* What must be halted once p has been handled: the model whose signals are
\* past the kill threshold; what each breach puts in doubt.
Owed(p) ==
  {[halt |-> "model", of |-> q.about] :
     q \in {q \in {p} : /\ q.shape # "call" /\ q.type = "ML_SIGNAL_STALENESS"
                         /\ q.valid /\ q.reading >= KillHours}}
  \cup {[halt |-> "orders", of |-> IF b \in AccountWide THEN EveryInstrument ELSE p.about] :
          b \in (IF IsReconciliation(p) THEN ToSet(Breaches(p)) ELSE {})}

\* The freezes, of which the first j come through: fewer than all of them if a
\* publication raises.
ArmFreezes(m) ==
  /\ m.alerts = <<>>
  /\ \E j \in 0 .. Len(FreezesOf(m.payload)) :
       /\ frozen' = frozen \cup ToSet(SubSeq(FreezesOf(m.payload), 1, j))
       /\ owed' = owed \cup {h \in Owed(m.payload) : j = Len(FreezesOf(m.payload))}
  /\ hand' = {}
  /\ UNCHANGED <<now, arriving, router, people, fired, broken>>

\* publish_recon_freeze_lifted: the operator lifts one scope.
Lift(scope) ==
  /\ scope \in frozen
  /\ frozen' = frozen \ {scope}
  /\ owed' = owed \ {[halt |-> "orders", of |-> scope]}
  /\ UNCHANGED <<now, arriving, hand, router, people, fired, broken>>

\* A restart forgets what was in memory and in hand; the cooldowns are in the bucket.
Restart == /\ router' = [seen |-> Nothing, cooldown |-> router.cooldown]
           /\ hand' = {}
           /\ UNCHANGED <<now, arriving, people, fired, broken, frozen, owed>>

Tick == /\ now < MaxTime
        /\ now' = now + 1
        /\ UNCHANGED <<arriving, hand, router, people, fired, broken, frozen, owed>>

EventsNext ==
  \/ \E p \in arriving : Receive(p)
  \/ \E m \in hand : RouteAlert(m) \/ RoutingRaises(m) \/ ArmFreezes(m)
  \/ \E scope \in frozen : Lift(scope)
  \/ Restart
  \/ Tick

EventsSpec == EventsInit /\ [][EventsNext]_eventsVars

(***************************************************************************)
(* Properties                                                              *)
(***************************************************************************)
(***************************************************************************)
(* What was handled without a failure has halted what it puts in doubt,    *)
(* duplicates, restarts and redeliveries notwithstanding.  A staleness     *)
(* event past the kill threshold has halted its model, though its alert    *)
(* was held back for another of the same identity, but for a model whose   *)
(* handling broke before: what failed may stand in the way of its repeat.  *)
(* A call of the reconciliation handler has halted the orders for each of  *)
(* its breaches, of one instrument or of all, until somebody lifts it; an  *)
(* event about reconciliation is no such call, and halts nothing.          *)
(***************************************************************************)
HaltsFollowBreaches ==
  \A h \in owed : h.of \in (IF h.halt = "model" THEN fired \cup broken ELSE frozen)

(***************************************************************************)
(* "One key per (identity, event) per window; re-nags while down,          *)
(* re-alerts on resolve+recur" (recurring_alert_cooldowns.py): nobody is   *)
(* left with a recovery for the last word while the bucket is down again.  *)
(***************************************************************************)
ResolvedAndRecurringIsTold ==
  \A s \in DOMAIN people.told :
    people.told[s].name = "CONSOLIDATOR_RECOVERED"
      => people.latest[s].name = "CONSOLIDATOR_RECOVERED"
==============================================================================
