------------------------- MODULE AlertRouterProofs -------------------------
(***************************************************************************)
(* Proofs about AlertRouter, for any table of rules, any windows and any   *)
(* traffic: its type, that a drill and a replay are silent, that a         *)
(* recurring condition is paged once per window, and that a staleness      *)
(* signal is held back only behind another.                                *)
(***************************************************************************)
EXTENDS AlertRouter, TLAPS

\* Nothing has left the service.
Quiet(effect) == /\ ~effect.mirrored /\ ~effect.paged /\ ~effect.emailed /\ ~effect.posted
                 /\ ~effect.published /\ ~effect.offered

\* A verdict alone is quiet.
LEMMA DidIsQuiet == ASSUME NEW verdict PROVE Quiet(Did(verdict))
BY DEF Quiet, Did, Nothing

\* Outside live mode no cooldown is written.
LEMMA ReplayKeepsCooldowns ==
    ASSUME NEW accepted, Remember(accepted), mode # "live",
           \A i \in Identities : cooldown[i] = NoTime
    PROVE  \A i \in Identities : cooldown'[i] = NoTime
BY DEF Remember

\* A call that lets something out is about no drill the router can see, and live.
Silent(e) == /\ UNCHANGED <<mode, arriving>>
             /\ \E accepted : Remember(accepted)
             /\ Quiet(out') \/ (mode = "live" /\ ~e.synthetic)

\* route_event lets nothing of a flagged drill or a replay out.
LEMMA RouteEventSilent == ASSUME NEW e, RouteEvent(e) PROVE Silent(e)
<1>u. UNCHANGED <<mode, arriving>>
  BY DEF RouteEvent
<1>1. CASE DropDuplicate(e)
  BY <1>1, <1>u, DidIsQuiet DEF DropDuplicate, Silent
<1>2. CASE Coalesce(e)
  BY <1>2, <1>u, DidIsQuiet DEF Coalesce, Silent
<1>3. CASE RouteSynthetic(e)
  BY <1>3, <1>u, DidIsQuiet DEF RouteSynthetic, Silent
<1>4. CASE RouteBatchAudit(e)
  BY <1>4, <1>u, DidIsQuiet DEF RouteBatchAudit, Silent
<1>5. CASE RouteNotMirrored(e)
  BY <1>5, <1>u, DidIsQuiet DEF RouteNotMirrored, Silent
<1>6. CASE RouteDataPipeline(e)
  BY <1>6, <1>u DEF RouteDataPipeline, Live, Silent
<1>7. CASE RouteGeneric(e)
  BY <1>7, <1>u DEF RouteGeneric, Live, Silent
<1> QED
  BY <1>1, <1>2, <1>3, <1>4, <1>5, <1>6, <1>7 DEF RouteEvent

\* Neither does its explicit twin.
LEMMA RouteExplicitSilent == ASSUME NEW e, RouteExplicit(e) PROVE Silent(e)
<1>1. CASE DropDuplicate(e) /\ UNCHANGED <<now, arriving, mode>>
  BY <1>1, DidIsQuiet DEF DropDuplicate, Silent
<1>2. CASE ~IsDuplicateAlert(e)
  <2>1. Remember({e}) /\ UNCHANGED <<mode, arriving>>
    BY <1>2 DEF RouteExplicit, DropDuplicate
  <2>2. CASE Live /\ ~e.synthetic
    BY <2>1, <2>2 DEF Live, Silent
  <2>3. CASE ~(Live /\ ~e.synthetic)
    <3>1. \E verdict : out' = Did(verdict)
      BY <1>2, <2>3 DEF RouteExplicit, DropDuplicate
    <3> QED
      BY <2>1, <3>1, DidIsQuiet DEF Silent
  <2> QED
    BY <2>2, <2>3
<1> QED
  BY <1>1, <1>2 DEF RouteExplicit

\* A flag the handler passes on is there when the router looks.
LEMMA HandleSilent ==
    ASSUME DrillsAreSilent, NEW f \in arriving, f \in EventType, Handle(f) PROVE DrillsAreSilent'
<1>1. Silent(Handed(f))
  BY RouteEventSilent, RouteExplicitSilent DEF Handle
<1>2. Identities' = Identities
  BY <1>1 DEF Silent, Identities, Alerts
<1>3. mode # "live" => \A i \in Identities : cooldown'[i] = NoTime
  BY <1>1, ReplayKeepsCooldowns DEF DrillsAreSilent, Silent
<1>4. drill' = "flagged" => f.synthetic /\ Rules[f.name].forwards
  BY DEF Handle
<1>5. Handed(f).synthetic = (f.synthetic /\ Rules[f.name].forwards)
  BY DEF Handed, EventType
<1>6. mode # "live" \/ drill' = "flagged" => Quiet(out')
  BY <1>1, <1>4, <1>5, Zenon DEF Silent
<1> QED
  BY <1>1, <1>2, <1>3, <1>6 DEF DrillsAreSilent, Quiet, Silent

\* Nothing leaves the service during a replay, nor for a drill whose handler passes
\* its flag on, and a replay leaves the live cooldowns alone (route_event and its
\* explicit twin).
THEOREM DrillsSilent == Spec => []DrillsAreSilent
<1>1. Init => DrillsAreSilent
  BY DEF Init, DrillsAreSilent, Nothing
<1>2. DrillsAreSilent /\ arriving \in Traffic /\ [Next]_vars => DrillsAreSilent' /\ (arriving \in Traffic)'
  <2> SUFFICES ASSUME DrillsAreSilent, arriving \in Traffic, [Next]_vars
               PROVE  DrillsAreSilent' /\ arriving' = arriving
    OBVIOUS
  <2>1. CASE FinishReplay
    BY <2>1 DEF FinishReplay, DrillsAreSilent, Identities, Alerts
  <2>2. CASE Restart
    BY <2>2 DEF Restart, Live, DrillsAreSilent
  <2>3. CASE Tick \/ UNCHANGED vars
    BY <2>3 DEF Tick, vars, DrillsAreSilent, Identities, Alerts
  <2>4. ASSUME NEW f \in arriving, Handle(f) PROVE DrillsAreSilent' /\ arriving' = arriving
    <3>1. f \in EventType
      BY RouterAssumption DEF Events
    <3>2. arriving' = arriving
      BY <2>4, RouteEventSilent, RouteExplicitSilent DEF Handle, Silent
    <3> QED
      BY <2>4, <3>1, <3>2, HandleSilent
  <2> QED
    BY <2>1, <2>2, <2>3, <2>4 DEF Next
<1>3. Init => arriving \in Traffic
  BY DEF Init
<1> QED
  BY <1>1, <1>2, <1>3, PTL DEF Spec

-----------------------------------------------------------------------------
(* Events and their identities.                                            *)

\* Stamping a severity on an event changes neither what it is about nor its window.
LEMMA StampKeeps ==
    ASSUME NEW e \in EventType, NEW severity \in Severities \cup {NoStamp}
    PROVE  /\ Stamp(e, severity) \in EventType
           /\ Stamp(e, severity).name = e.name /\ Stamp(e, severity).about = e.about
           /\ IsStaticBacklog(Stamp(e, severity)) = IsStaticBacklog(e)
           /\ WindowOf(Stamp(e, severity)) = WindowOf(e)
           /\ IsRecurring(Stamp(e, severity)) = IsRecurring(e)
<1>1. /\ Stamp(e, severity) \in EventType
      /\ Stamp(e, severity).name = e.name /\ Stamp(e, severity).about = e.about
      /\ Stamp(e, severity).is_static_backlog = e.is_static_backlog
  BY DEF Stamp, EventType
<1>2. IsStaticBacklog(Stamp(e, severity)) = IsStaticBacklog(e)
  BY <1>1 DEF IsStaticBacklog
<1>3. RecurringWindow(Stamp(e, severity)) = RecurringWindow(e)
  BY <1>1, <1>2 DEF RecurringWindow
<1> QED
  BY <1>1, <1>2, <1>3 DEF WindowOf, IsRecurring

\* Shapes of one condition page under one identity.
LEMMA OnePageIdentity ==
    ASSUME NEW e \in EventType, NEW f \in EventType, Condition(e) = Condition(f)
    PROVE  Stamp(e, "CRITICAL") = Stamp(f, "CRITICAL") /\ e.name = f.name
<1>1. /\ e.name = f.name /\ e.about = f.about /\ e.resolved = f.resolved
      /\ e.is_static_backlog = f.is_static_backlog /\ e.synthetic = f.synthetic
  <2>1. /\ Condition(e).name = e.name /\ Condition(e).about = e.about
        /\ Condition(e).resolved = e.resolved /\ Condition(e).synthetic = e.synthetic
        /\ Condition(e).is_static_backlog = e.is_static_backlog
    BY DEF Condition, Stamp, EventType
  <2>2. /\ Condition(f).name = f.name /\ Condition(f).about = f.about
        /\ Condition(f).resolved = f.resolved /\ Condition(f).synthetic = f.synthetic
        /\ Condition(f).is_static_backlog = f.is_static_backlog
    BY DEF Condition, Stamp, EventType
  <2> QED
    BY <2>1, <2>2
<1> QED
  BY <1>1 DEF Stamp, EventType

\* The window of an event is a length of time.
LEMMA WindowIsNat ==
    ASSUME NEW e \in EventType
    PROVE  WindowOf(e) \in Nat
<1>1. Rules[e.name].window \in Nat
  BY RouterAssumption DEF EventType, RuleType
<1> QED
  BY <1>1, RouterAssumption DEF WindowOf, RecurringWindow

\* A handler builds an alert of the same kind as the event it is given.
LEMMA HandedType ==
    ASSUME NEW e \in EventType
    PROVE  Handed(e) \in EventType
<1>1. Rules[e.name] \in RuleType
  BY RouterAssumption DEF EventType
<1>2. Rules[e.name].becomes \in DOMAIN Rules /\ Rules[e.name].forwards \in BOOLEAN
  BY <1>1 DEF RuleType
<1>3. Rules[Rules[e.name].becomes].severity \in Severities
  BY <1>2, RouterAssumption DEF RuleType
<1> DEFINE severity == IF Rules[e.name].stamps
                       THEN Rules[Rules[e.name].becomes].severity ELSE e.severity
<1>4. severity \in Severities \cup {NoStamp}
  BY <1>3 DEF EventType
<1>5. Handed(e) = [e EXCEPT !.name = Rules[e.name].becomes, !.severity = severity,
                            !.resolved = e.resolved /\ Rules[e.name].forwards,
                            !.is_static_backlog = e.is_static_backlog /\ Rules[e.name].forwards,
                            !.synthetic = e.synthetic /\ Rules[e.name].forwards]
  BY DEF Handed, EventType
<1> HIDE DEF severity
<1>6. (e.resolved /\ Rules[e.name].forwards) \in BOOLEAN
  OBVIOUS
<1>7. /\ (e.is_static_backlog /\ Rules[e.name].forwards) \in BOOLEAN
      /\ (e.synthetic /\ Rules[e.name].forwards) \in BOOLEAN
  OBVIOUS
<1> QED
  BY <1>2, <1>4, <1>5, <1>6, <1>7 DEF EventType

\* The alerts that a change of the other variables leaves as they are.
LEMMA AlertsStay ==
    ASSUME arriving' = arriving
    PROVE  /\ Alerts' = Alerts /\ Identities' = Identities
           /\ Subjects' = Subjects /\ Conditions' = Conditions
<1>1. Alerts' = Alerts
  BY DEF Alerts
<1> QED
  BY <1>1 DEF Identities, Subjects, Conditions

\* What may reach the router, and the identities it is deduplicated under.
LEMMA ArrivingTypes ==
    ASSUME TypeOK
    PROVE  /\ \A e \in Alerts : /\ e \in {Handed(f) : f \in Events}
                              /\ e \in EventType /\ Rules[e.name] \in RuleType
           /\ \A e \in Alerts : e \in Identities /\ Stamp(e, "CRITICAL") \in Identities
           /\ \A e \in Alerts : e.about \in Subjects /\ Condition(e) \in Conditions
           /\ Identities \subseteq EventType
<1>0. arriving \subseteq Events /\ Events \subseteq EventType
  BY RouterAssumption DEF TypeOK, Events
<1>1. \A e \in Alerts : e \in {Handed(f) : f \in Events} /\ e \in EventType
  BY <1>0, HandedType DEF Alerts
<1>2. \A e \in EventType : Rules[e.name] \in RuleType
  BY RouterAssumption DEF EventType
<1>3. Identities \subseteq EventType
  BY <1>1, StampKeeps DEF Identities, Alerts, Severities
<1> QED
  BY <1>1, <1>2, <1>3 DEF Identities, Subjects, Conditions, Alerts

-----------------------------------------------------------------------------
(* Types.                                                                  *)

Times == 0..MaxTime[arriving] \cup {NoTime}

DeliveryType == [paged: BOOLEAN, emailed: BOOLEAN, posted: BOOLEAN, failed: BOOLEAN]

LEMMA DeliveryTypes ==
    ASSUME NEW e \in EventType, NEW channels, NEW critical, NEW answers
    PROVE  Delivery(e, channels, critical, answers) \in DeliveryType
BY DEF Delivery, DeliveryType

LEMMA DidTypes ==
    ASSUME NEW verdict \in Verdicts, NEW e \in EventType
    PROVE  Did(verdict) \in Effect
BY DEF Did, Nothing, Effect, EventType

LEMMA WithTypes ==
    ASSUME NEW effect \in Effect, NEW d \in DeliveryType
    PROVE  With(effect, d) \in Effect
BY DEF With, Effect, DeliveryType

LEMMA RememberTypes ==
    ASSUME TypeOK, NEW accepted, Remember(accepted)
    PROVE  seen' \in [Identities -> Times] /\ cooldown' \in [Identities -> Times]
<1>1. now \in Times /\ NoTime \in Times
  BY DEF TypeOK, Times
<1>2. seen \in [Identities -> Times] /\ cooldown \in [Identities -> Times]
  BY DEF TypeOK, Times
<1>3. \A i \in Identities : Unexpired(i) \in Times
  BY <1>1, <1>2 DEF Unexpired
<1> QED
  BY <1>1, <1>2, <1>3 DEF Remember

LEMMA PassesTypes ==
    ASSUME TypeOK, NEW e \in Alerts, Passes(e)
    PROVE  window' \in [Subjects -> Times] /\ lastFired' \in [Subjects -> Times]
BY ArrivingTypes DEF TypeOK, Times, Passes

LEMMA CountTypes ==
    ASSUME TypeOK, Accepts, Count
    PROVE  replayed' \in 0..MaxReplayed
BY RouterAssumption DEF TypeOK, Accepts, Live, Replaying, Count

\* The types that a call of the router has to re-establish.
LEMMA CallTypes ==
    ASSUME TypeOK, UNCHANGED <<now, arriving, mode>>,
           NEW accepted, Remember(accepted), replayed' \in 0..MaxReplayed,
           window' \in [Subjects -> Times], lastFired' \in [Subjects -> Times],
           lastPaged' \in [Conditions -> Times], out' \in Effect,
           drill' \in {"none", "flagged", "stripped"}
    PROVE  TypeOK'
<1>1. seen' \in [Identities -> Times] /\ cooldown' \in [Identities -> Times]
  BY RememberTypes
<1>2. Identities' = Identities /\ Subjects' = Subjects /\ Conditions' = Conditions
  BY AlertsStay
<1> QED
  BY <1>1, <1>2 DEF TypeOK, Times

LEMMA RouteEventTypes ==
    ASSUME TypeOK, NEW e \in Alerts, RouteEvent(e),
           drill' \in {"none", "flagged", "stripped"}
    PROVE  TypeOK'
<1>0. /\ e \in EventType /\ Condition(e) \in Conditions /\ now \in Times /\ Accepts
      /\ window \in [Subjects -> Times] /\ lastFired \in [Subjects -> Times]
      /\ lastPaged \in [Conditions -> Times] /\ replayed \in 0..MaxReplayed
      /\ UNCHANGED <<now, arriving, mode>>
  BY ArrivingTypes DEF TypeOK, Times, RouteEvent
<1>1. CASE DropDuplicate(e)
  <2>1. out' \in Effect
    BY <1>0, <1>1, DidTypes DEF DropDuplicate, Verdicts
  <2> QED
    BY <1>0, <1>1, <2>1, CountTypes, CallTypes DEF DropDuplicate
<1>2. CASE Coalesce(e)
  <2>1. out' \in Effect
    BY <1>0, <1>2, DidTypes DEF Coalesce, Verdicts
  <2> QED
    BY <1>0, <1>2, <2>1, CallTypes DEF Coalesce
<1>3. CASE RouteSynthetic(e) \/ RouteBatchAudit(e)
  <2>1. out' \in Effect
    BY <1>0, <1>3, DidTypes DEF RouteSynthetic, RouteBatchAudit, Verdicts
  <2>2. Passes(e) /\ Remember({e}) /\ Count /\ UNCHANGED lastPaged
    BY <1>3 DEF RouteSynthetic, RouteBatchAudit
  <2> QED
    BY <1>0, <2>1, <2>2, PassesTypes, CountTypes, CallTypes
<1>4. CASE RouteNotMirrored(e)
  <2>1. out' \in Effect
    BY <1>0, <1>4, DidTypes DEF RouteNotMirrored, Verdicts
  <2>2. Passes(e) /\ Remember({e}) /\ UNCHANGED <<replayed, lastPaged>>
    BY <1>4 DEF RouteNotMirrored
  <2> QED
    BY <1>0, <2>1, <2>2, PassesTypes, CallTypes
<1>5. CASE RouteDataPipeline(e)
  <2>1. /\ Passes(e) /\ UNCHANGED replayed
        /\ \E accepted : Remember(accepted)
        /\ lastPaged' \in [Conditions -> Times]
    BY <1>0, <1>5 DEF RouteDataPipeline
  <2>2. PICK d \in DeliveryType :
          out' = With([Did("mirrored") EXCEPT !.mirrored = TRUE, !.offered = TRUE], d)
    <3>1. NoDelivery \in DeliveryType
      BY DEF NoDelivery, DeliveryType
    <3> DEFINE pages == /\ RoutedSeverity(e) = "CRITICAL" /\ Stamp(e, RoutedSeverity(e)) # e
                        /\ ~IsDuplicateAlert(Stamp(e, RoutedSeverity(e)))
    <3>2. PICK answers \in Answers :
            LET d == IF pages THEN Delivery(e, {"pagerduty", "telegram"}, TRUE, answers)
                              ELSE NoDelivery
            IN  out' = With([Did("mirrored") EXCEPT !.mirrored = TRUE, !.offered = TRUE], d)
      BY <1>5 DEF RouteDataPipeline
    <3> HIDE DEF pages
    <3> QED
      BY <1>0, <3>1, <3>2, DeliveryTypes
  <2>3. Did("mirrored") \in Effect
    BY <1>0, DidTypes DEF Verdicts
  <2>4. [Did("mirrored") EXCEPT !.mirrored = TRUE, !.offered = TRUE] \in Effect
    BY <2>3 DEF Effect
  <2>5. out' \in Effect
    BY <2>2, <2>4, WithTypes
  <2> QED
    BY <1>0, <2>1, <2>5, PassesTypes, CallTypes
<1>6. CASE RouteGeneric(e)
  <2>1. Passes(e) /\ Remember({e}) /\ UNCHANGED <<replayed, lastPaged>>
    BY <1>6 DEF RouteGeneric
  <2>2. PICK answers \in Answers :
          out' = With([Did("dispatched") EXCEPT !.published = Rules[e.name].kill_switch],
                      Delivery(e, MatchedChannels(e), Rules[e.name].severity = "CRITICAL", answers))
    BY <1>6 DEF RouteGeneric
  <2>3. Did("dispatched") \in Effect /\ Rules[e.name].kill_switch \in BOOLEAN
    BY <1>0, DidTypes, ArrivingTypes DEF Verdicts, RuleType
  <2>4. [Did("dispatched") EXCEPT !.published = Rules[e.name].kill_switch] \in Effect
    BY <2>3 DEF Effect
  <2>5. out' \in Effect
    BY <1>0, <2>2, <2>4, DeliveryTypes, WithTypes
  <2> QED
    BY <1>0, <2>1, <2>5, PassesTypes, CallTypes
<1> QED
  BY <1>1, <1>2, <1>3, <1>4, <1>5, <1>6 DEF RouteEvent

LEMMA RouteExplicitTypes ==
    ASSUME TypeOK, NEW e \in Alerts, RouteExplicit(e),
           drill' \in {"none", "flagged", "stripped"}
    PROVE  TypeOK'
<1>0. /\ e \in EventType /\ Condition(e) \in Conditions /\ now \in Times /\ Accepts
      /\ window \in [Subjects -> Times] /\ lastFired \in [Subjects -> Times]
      /\ lastPaged \in [Conditions -> Times] /\ replayed \in 0..MaxReplayed
      /\ UNCHANGED <<now, arriving, mode, window, lastFired>>
  BY ArrivingTypes DEF TypeOK, Times, RouteExplicit, DropDuplicate
<1>1. CASE DropDuplicate(e)
  <2>1. out' \in Effect
    BY <1>0, <1>1, DidTypes DEF DropDuplicate, Verdicts
  <2> QED
    BY <1>0, <1>1, <2>1, CountTypes, CallTypes DEF DropDuplicate
<1>2. CASE ~DropDuplicate(e) /\ Live /\ ~e.synthetic
  <2>1. /\ Remember({e}) /\ UNCHANGED replayed
        /\ lastPaged' \in [Conditions -> Times]
        /\ \E answers \in Answers :
              out' = With(Did("dispatched"),
                          Delivery(e, MatchedChannels(e), Rules[e.name].severity = "CRITICAL", answers))
    BY <1>0, <1>2 DEF RouteExplicit
  <2>2. out' \in Effect
    <3>1. Did("dispatched") \in Effect
      BY <1>0, DidTypes DEF Verdicts
    <3> QED
      BY <1>0, <2>1, <3>1, DeliveryTypes, WithTypes
  <2> QED
    BY <1>0, <2>1, <2>2, CallTypes
<1>3. CASE ~DropDuplicate(e) /\ ~(Live /\ ~e.synthetic)
  <2>1. /\ Remember({e}) /\ Count /\ UNCHANGED lastPaged
        /\ out' = Did(IF e.synthetic THEN "suppressed_synthetic" ELSE "audited")
    BY <1>0, <1>3 DEF RouteExplicit
  <2>2. out' \in Effect
    BY <1>0, <2>1, DidTypes DEF Verdicts
  <2> QED
    BY <1>0, <2>1, <2>2, CountTypes, CallTypes
<1> QED
  BY <1>1, <1>2, <1>3

LEMMA HandleTypes ==
    ASSUME TypeOK, NEW e \in arriving, Handle(e)
    PROVE  TypeOK'
<1>1. Handed(e) \in Alerts
  BY DEF Alerts
<1>2. drill' \in {"none", "flagged", "stripped"}
  BY DEF Handle
<1> QED
  BY <1>1, <1>2, RouteEventTypes, RouteExplicitTypes DEF Handle

\* The router's state keeps its type.
THEOREM TypeCorrect == Spec => []TypeOK
<1>1. Init => TypeOK
  <2> SUFFICES ASSUME Init PROVE TypeOK
    OBVIOUS
  <2>1. Nothing \in Effect
    BY DEF Nothing, Effect, Verdicts
  <2> QED
    BY <2>1, RouterAssumption DEF Init, TypeOK
<1>2. TypeOK /\ [Next]_vars => TypeOK'
  <2> SUFFICES ASSUME TypeOK, [Next]_vars
               PROVE  TypeOK'
    OBVIOUS
  <2>1. ASSUME UNCHANGED arriving
        PROVE  /\ Identities' = Identities /\ Subjects' = Subjects /\ Conditions' = Conditions
               /\ MaxTime[arriving'] = MaxTime[arriving] /\ MaxTime[arriving] \in Nat
    BY <2>1, AlertsStay, RouterAssumption DEF TypeOK
  <2>2. CASE FinishReplay
    BY <2>1, <2>2 DEF FinishReplay, TypeOK
  <2>3. CASE Restart
    BY <2>1, <2>3 DEF Restart, TypeOK
  <2>4. CASE Tick
    BY <2>1, <2>4 DEF Tick, TypeOK
  <2>5. CASE UNCHANGED vars
    BY <2>1, <2>5 DEF vars, TypeOK
  <2> QED
    BY <2>2, <2>3, <2>4, <2>5, HandleTypes DEF Next
<1> QED
  BY <1>1, <1>2, PTL DEF Spec

-----------------------------------------------------------------------------
(* One page per window.                                                    *)

\* The page of a recurring condition, under the one identity all its shapes page
\* under, is in the durable cooldowns.
PagesAreCooled ==
    /\ \A c \in Conditions : lastPaged[c] <= now
    /\ \A e \in Alerts :
        IsRecurring(e) => lastPaged[Condition(e)] <= cooldown[Stamp(e, "CRITICAL")]

\* What a call may do to the bookkeeping of pages: it lets identities through, and
\* pages at most one condition, whose page is then among them.
LEMMA CooledCall ==
    ASSUME TypeOK, PagesAreCooled, UNCHANGED <<now, arriving, mode>>,
           NEW accepted, Remember(accepted), NEW e \in Alerts,
           \/ lastPaged' = lastPaged
           \/ /\ lastPaged' = [lastPaged EXCEPT ![Condition(e)] = now]
              /\ Live /\ (IsRecurring(e) => Stamp(e, "CRITICAL") \in accepted)
    PROVE  PagesAreCooled'
<1>0. /\ Identities' = Identities /\ Conditions' = Conditions
      /\ Identities \subseteq EventType /\ now \in Int
      /\ \A c \in Conditions : lastPaged[c] \in Int
      /\ \A i \in Identities : cooldown[i] \in Int
      /\ \A f \in Alerts : /\ f \in EventType /\ Condition(f) \in Conditions
                             /\ Stamp(f, "CRITICAL") \in Identities
  BY ArrivingTypes, AlertsStay DEF TypeOK, NoTime
<1>1. \A c \in Conditions : lastPaged'[c] = lastPaged[c] \/ lastPaged'[c] = now
  BY DEF TypeOK
<1>2. \A i \in Identities : cooldown'[i] = cooldown[i] \/ cooldown'[i] = now
  BY DEF Remember
<1>3. \A i \in Identities : i \in accepted /\ Live /\ IsRecurring(i) => cooldown'[i] = now
  BY DEF Remember, Live
<1>4. ASSUME NEW f \in Alerts, IsRecurring(f)
      PROVE  lastPaged'[Condition(f)] <= cooldown'[Stamp(f, "CRITICAL")]
  <2>1. /\ lastPaged[Condition(f)] <= cooldown[Stamp(f, "CRITICAL")]
        /\ lastPaged[Condition(f)] <= now
    BY <1>0, <1>4 DEF PagesAreCooled
  <2>2. CASE lastPaged'[Condition(f)] = lastPaged[Condition(f)]
    BY <1>0, <1>2, <2>1, <2>2
  <2>3. CASE lastPaged'[Condition(f)] # lastPaged[Condition(f)]
    <3>1. /\ Condition(f) = Condition(e) /\ lastPaged'[Condition(f)] = now /\ Live
          /\ IsRecurring(e) => Stamp(e, "CRITICAL") \in accepted
      BY <1>0, <2>3 DEF TypeOK
    <3>2. Stamp(f, "CRITICAL") = Stamp(e, "CRITICAL")
      BY <1>0, <3>1, OnePageIdentity
    <3>3. IsRecurring(Stamp(f, "CRITICAL")) /\ IsRecurring(e)
      BY <1>0, <1>4, <3>2, StampKeeps DEF Severities
    <3>4. cooldown'[Stamp(f, "CRITICAL")] = now
      BY <1>0, <1>3, <3>1, <3>2, <3>3
    <3> QED
      BY <1>0, <3>1, <3>4
  <2> QED
    BY <2>2, <2>3
<1>5. ASSUME NEW c \in Conditions PROVE lastPaged'[c] <= now
  BY <1>0, <1>1 DEF PagesAreCooled
<1> QED
  BY <1>0, <1>4, <1>5, AlertsStay DEF PagesAreCooled

LEMMA RouteEventCooled ==
    ASSUME TypeOK, PagesAreCooled, NEW e \in Alerts, RouteEvent(e)
    PROVE  PagesAreCooled'
<1>u. UNCHANGED <<now, arriving, mode>>
  BY DEF RouteEvent
<1>1. CASE DropDuplicate(e)
  BY <1>u, <1>1, CooledCall DEF DropDuplicate
<1>2. CASE Coalesce(e)
  BY <1>u, <1>2, CooledCall DEF Coalesce
<1>3. CASE RouteSynthetic(e) \/ RouteBatchAudit(e) \/ RouteNotMirrored(e)
  <2>1. Remember({e}) /\ UNCHANGED lastPaged
    BY <1>3 DEF RouteSynthetic, RouteBatchAudit, RouteNotMirrored
  <2> QED
    BY <1>u, <2>1, CooledCall
<1>4. CASE RouteDataPipeline(e)
  <2> DEFINE page == Stamp(e, RoutedSeverity(e))
             pages == RoutedSeverity(e) = "CRITICAL" /\ page # e /\ ~IsDuplicateAlert(page)
  <2>1. /\ Live /\ Remember(IF pages THEN {e, page} ELSE {e})
        /\ lastPaged' = IF pages THEN [lastPaged EXCEPT ![Condition(e)] = now] ELSE lastPaged
    BY <1>4 DEF RouteDataPipeline
  <2>2. pages => page = Stamp(e, "CRITICAL")
    OBVIOUS
  <2> HIDE DEF pages, page
  <2>3. CASE pages
    BY <1>u, <2>1, <2>2, <2>3, CooledCall
  <2>4. CASE ~pages
    BY <1>u, <2>1, <2>4, CooledCall
  <2> QED
    BY <2>3, <2>4
<1>5. CASE RouteGeneric(e)
  BY <1>u, <1>5, CooledCall DEF RouteGeneric
<1> QED
  BY <1>1, <1>2, <1>3, <1>4, <1>5 DEF RouteEvent

LEMMA RouteExplicitCooled ==
    ASSUME TypeOK, PagesAreCooled, NEW e \in Alerts, RouteExplicit(e)
    PROVE  PagesAreCooled'
<1>u. UNCHANGED <<now, arriving, mode>> /\ Rules[e.name].family = "typed"
  BY DEF RouteExplicit
<1>1. CASE DropDuplicate(e)
  BY <1>u, <1>1, CooledCall DEF DropDuplicate
<1>2. CASE ~DropDuplicate(e)
  <2>1. /\ Remember({e})
        /\ \/ lastPaged' = lastPaged
           \/ /\ lastPaged' = [lastPaged EXCEPT ![Condition(e)] = now]
              /\ Live /\ Rules[e.name].severity = "CRITICAL"
    BY <1>2 DEF RouteExplicit
  <2>2. Rules[e.name].severity = "CRITICAL" /\ IsRecurring(e) => Stamp(e, "CRITICAL") \in {e}
    <3>1. e \in {Handed(f) : f \in Events} /\ e \in EventType
      BY ArrivingTypes
    <3>2. ASSUME e.severity = "CRITICAL" PROVE Stamp(e, "CRITICAL") = e
      BY <3>1, <3>2 DEF Stamp, EventType
    <3> QED
      BY <1>u, <3>1, <3>2, ClosedSetsAssumption
  <2> QED
    BY <1>u, <2>1, <2>2, CooledCall
<1> QED
  BY <1>1, <1>2

LEMMA HandleCooled ==
    ASSUME TypeOK, PagesAreCooled, NEW e \in arriving, Handle(e)
    PROVE  PagesAreCooled'
<1>1. Handed(e) \in Alerts
  BY DEF Alerts
<1> QED
  BY <1>1, RouteEventCooled, RouteExplicitCooled DEF Handle

\* A recurring condition is paged once per window, whatever severities its
\* emitters stamp on it and however often the service is redeployed.
THEOREM PagesCorrect == Spec => []OnePagePerWindow
<1>1. Init => PagesAreCooled
  <2> SUFFICES ASSUME Init PROVE PagesAreCooled
    OBVIOUS
  <2>1. \A e \in Alerts : Condition(e) \in Conditions /\ Stamp(e, "CRITICAL") \in Identities
    BY DEF Conditions, Identities, Alerts
  <2> QED
    BY <2>1 DEF Init, PagesAreCooled, NoTime
<1>2. TypeOK /\ PagesAreCooled /\ [Next]_vars => PagesAreCooled'
  <2> SUFFICES ASSUME TypeOK, PagesAreCooled, [Next]_vars
               PROVE  PagesAreCooled'
    OBVIOUS
  <2>1. CASE FinishReplay \/ Restart \/ UNCHANGED vars
    <3>1. UNCHANGED <<now, arriving, cooldown, lastPaged>>
      BY <2>1 DEF FinishReplay, Restart, vars
    <3> QED
      BY <3>1, AlertsStay DEF PagesAreCooled
  <2>2. CASE Tick
    <3>1. /\ now' = now + 1 /\ UNCHANGED <<arriving, cooldown, lastPaged>>
          /\ Conditions' = Conditions /\ Alerts' = Alerts
      BY <2>2, AlertsStay DEF Tick
    <3>2. now \in Int /\ \A c \in Conditions : lastPaged[c] \in Int
      BY DEF TypeOK, NoTime
    <3> QED
      BY <3>1, <3>2 DEF PagesAreCooled
  <2> QED
    BY <2>1, <2>2, HandleCooled DEF Next
<1>3. TypeOK /\ PagesAreCooled => OnePagePerWindow
  <2> SUFFICES ASSUME TypeOK, PagesAreCooled, NEW e \in Alerts,
                      IsRecurring(e), lastPaged[Condition(e)] # NoTime,
                      now - lastPaged[Condition(e)] < WindowOf(e), WouldPage(e)
               PROVE  FALSE
    BY DEF OnePagePerWindow
  <2> DEFINE page == Stamp(e, "CRITICAL")
  <2>1. /\ e \in {Handed(f) : f \in Events} /\ e \in EventType /\ page \in Identities
        /\ Condition(e) \in Conditions
    BY ArrivingTypes
  <2>2. IsRecurring(page) /\ WindowOf(page) = WindowOf(e) /\ WindowOf(e) \in Nat
    BY <2>1, StampKeeps, WindowIsNat DEF Severities
  <2>3. ~IsDuplicateAlert(page)
    <3>1. CASE Rules[e.name].family = "typed" /\ Rules[e.name].severity = "CRITICAL"
      <4>1. e.severity = "CRITICAL"
        BY <2>1, <3>1, ClosedSetsAssumption
      <4>2. page = e
        BY <2>1, <4>1 DEF Stamp, EventType
      <4> HIDE DEF page
      <4> QED
        BY <4>2 DEF WouldPage
    <3>2. CASE ~(Rules[e.name].family = "typed" /\ Rules[e.name].severity = "CRITICAL")
      BY <3>2 DEF WouldPage
    <3> QED
      BY <3>1, <3>2
  <2>4. /\ lastPaged[Condition(e)] <= cooldown[page]
        /\ lastPaged[Condition(e)] \in Nat /\ cooldown[page] \in Int /\ now \in Int
    BY <2>1 DEF PagesAreCooled, TypeOK, NoTime
  <2> HIDE DEF page
  <2>5. cooldown[page] # NoTime /\ now - cooldown[page] < WindowOf(page)
    BY <2>2, <2>4 DEF NoTime
  <2> QED
    BY <2>2, <2>3, <2>5 DEF IsDuplicateAlert, WouldPage, Live
<1> QED
  BY <1>1, <1>2, <1>3, TypeCorrect, PTL DEF Spec

-----------------------------------------------------------------------------
(* Staleness signals.                                                      *)

\* A coalesce window is opened by a signal that got past it, and the signals that
\* are remembered came while one was open, or opened it.
SignalsAreDated ==
    /\ \A s \in Subjects : window[s] <= lastFired[s] /\ lastFired[s] <= now
    /\ \A e \in Alerts : Rules[e.name].coalesced /\ seen[e] # NoTime =>
        lastFired[e.about] # NoTime /\ seen[e] - lastFired[e.about] < CoalesceWindow

\* What a call may do to the bookkeeping of signals: open a window, or none; and
\* remember only the signals about a subject with a window that is open.
LEMMA DatedCall ==
    ASSUME TypeOK, SignalsAreDated, UNCHANGED <<now, arriving, mode>>,
           NEW accepted, Remember(accepted),
           \/ UNCHANGED <<window, lastFired>>
           \/ \E e \in Alerts : /\ window' = [window EXCEPT ![e.about] = now]
                                  /\ lastFired' = [lastFired EXCEPT ![e.about] = now],
           \A f \in accepted \cap Alerts : Rules[f.name].coalesced =>
                lastFired'[f.about] # NoTime /\ now - lastFired'[f.about] < CoalesceWindow
    PROVE  SignalsAreDated'
<1>0. /\ Subjects' = Subjects /\ now \in Nat /\ CoalesceWindow \in Nat
      /\ \A s \in Subjects : window[s] \in Int /\ lastFired[s] \in Int
      /\ \A e \in Alerts : /\ e \in Identities /\ e.about \in Subjects
                             /\ seen[e] \in Int
  BY ArrivingTypes, AlertsStay, RouterAssumption DEF TypeOK, NoTime
<1>1. \A s \in Subjects : \/ window'[s] = window[s] /\ lastFired'[s] = lastFired[s]
                          \/ window'[s] = now /\ lastFired'[s] = now
  BY DEF TypeOK
<1>2. \A s \in Subjects : /\ window'[s] <= lastFired'[s] /\ lastFired'[s] <= now
                          /\ lastFired[s] <= lastFired'[s] /\ lastFired'[s] \in Int
  BY <1>0, <1>1 DEF SignalsAreDated
<1>3. ASSUME NEW e \in Alerts, Rules[e.name].coalesced, seen'[e] # NoTime
      PROVE  lastFired'[e.about] # NoTime /\ seen'[e] - lastFired'[e.about] < CoalesceWindow
  <2>1. CASE e \in accepted
    <3>1. seen'[e] = now
      BY <1>0, <2>1 DEF Remember
    <3> QED
      BY <1>3, <2>1, <3>1
  <2>2. CASE e \notin accepted
    <3>1. seen'[e] = seen[e]
      BY <1>0, <1>3, <2>2 DEF Remember, Unexpired
    <3>2. lastFired[e.about] # NoTime /\ seen[e] - lastFired[e.about] < CoalesceWindow
      BY <1>3, <3>1 DEF SignalsAreDated
    <3>3. lastFired'[e.about] # NoTime
      BY <1>0, <1>1, <3>2 DEF NoTime
    <3> QED
      BY <1>0, <1>2, <3>1, <3>2, <3>3
  <2> QED
    BY <2>1, <2>2
<1> QED
  BY <1>0, <1>2, <1>3, AlertsStay DEF SignalsAreDated

\* A call that gets past the coalesce window.
LEMMA DatedPasses ==
    ASSUME TypeOK, SignalsAreDated, UNCHANGED <<now, arriving, mode>>,
           NEW e \in Alerts, Passes(e), NEW accepted, Remember(accepted),
           \A i \in accepted : i.name = e.name /\ i.about = e.about
    PROVE  SignalsAreDated'
<1>1. CASE Rules[e.name].coalesced
  <2>1. /\ window' = [window EXCEPT ![e.about] = now]
        /\ lastFired' = [lastFired EXCEPT ![e.about] = now]
    BY <1>1 DEF Passes
  <2>2. lastFired'[e.about] = now /\ now \in Nat /\ CoalesceWindow \in Nat \ {0}
    BY <2>1, ArrivingTypes, RouterAssumption DEF TypeOK
  <2>3. now # NoTime /\ now - now < CoalesceWindow
    BY <2>2 DEF NoTime
  <2>4. \A f \in accepted \cap Alerts :
            lastFired'[f.about] # NoTime /\ now - lastFired'[f.about] < CoalesceWindow
    BY <2>2, <2>3
  <2> QED
    BY <2>1, <2>4, DatedCall
<1>2. CASE ~Rules[e.name].coalesced
  BY <1>2, DatedCall DEF Passes
<1> QED
  BY <1>1, <1>2

LEMMA RouteEventDated ==
    ASSUME TypeOK, SignalsAreDated, NEW e \in Alerts, RouteEvent(e)
    PROVE  SignalsAreDated'
<1>u. UNCHANGED <<now, arriving, mode>>
  BY DEF RouteEvent
<1>1. CASE DropDuplicate(e)
  BY <1>u, <1>1, DatedCall DEF DropDuplicate
<1>2. CASE Coalesce(e)
  <2>1. /\ Remember({e}) /\ UNCHANGED <<window, lastFired>>
        /\ window[e.about] # NoTime /\ now - window[e.about] < CoalesceWindow
    BY <1>2 DEF Coalesce, CoalescesNow
  <2>2. /\ e.about \in Subjects /\ window[e.about] \in Nat /\ lastFired[e.about] \in Int
        /\ now \in Nat /\ CoalesceWindow \in Nat
        /\ window[e.about] <= lastFired[e.about]
    BY <2>1, ArrivingTypes, RouterAssumption DEF TypeOK, SignalsAreDated, NoTime
  <2>3. lastFired'[e.about] # NoTime /\ now - lastFired'[e.about] < CoalesceWindow
    BY <2>1, <2>2 DEF NoTime
  <2>4. \A f \in {e} \cap Alerts : Rules[f.name].coalesced =>
            lastFired'[f.about] # NoTime /\ now - lastFired'[f.about] < CoalesceWindow
    BY <2>3
  <2> QED
    BY <1>u, <2>1, <2>4, DatedCall
<1>3. CASE RouteSynthetic(e) \/ RouteBatchAudit(e) \/ RouteNotMirrored(e) \/ RouteGeneric(e)
  <2>1. Passes(e) /\ Remember({e})
    BY <1>3 DEF RouteSynthetic, RouteBatchAudit, RouteNotMirrored, RouteGeneric
  <2> QED
    BY <1>u, <2>1, DatedPasses
<1>4. CASE RouteDataPipeline(e)
  <2> DEFINE page == Stamp(e, RoutedSeverity(e))
             pages == RoutedSeverity(e) = "CRITICAL" /\ page # e /\ ~IsDuplicateAlert(page)
  <2>1. Passes(e) /\ Remember(IF pages THEN {e, page} ELSE {e})
    BY <1>4 DEF RouteDataPipeline
  <2>2. pages => page.name = e.name /\ page.about = e.about
    BY ArrivingTypes, StampKeeps DEF Severities
  <2> HIDE DEF pages, page
  <2> DEFINE accepted == IF pages THEN {e, page} ELSE {e}
  <2>3. \A i \in accepted : i.name = e.name /\ i.about = e.about
    BY <2>2
  <2>4. Remember(accepted)
    BY <2>1
  <2> HIDE DEF accepted
  <2> QED
    BY <1>u, <2>1, <2>3, <2>4, DatedPasses
<1> QED
  BY <1>1, <1>2, <1>3, <1>4 DEF RouteEvent

LEMMA RouteExplicitDated ==
    ASSUME TypeOK, SignalsAreDated, NEW e \in Alerts, RouteExplicit(e)
    PROVE  SignalsAreDated'
<1>1. UNCHANGED <<now, arriving, mode, window, lastFired>> /\ (Remember({}) \/ Remember({e}))
  BY DEF RouteExplicit, DropDuplicate
<1>2. ~Rules[e.name].coalesced
  BY ArrivingTypes, ClosedSetsAssumption DEF RouteExplicit
<1>3. CASE Remember({})
  BY <1>1, <1>3, DatedCall
<1>4. CASE Remember({e})
  BY <1>1, <1>2, <1>4, DatedCall
<1> QED
  BY <1>1, <1>3, <1>4

LEMMA HandleDated ==
    ASSUME TypeOK, SignalsAreDated, NEW e \in arriving, Handle(e)
    PROVE  SignalsAreDated'
<1>1. Handed(e) \in Alerts
  BY DEF Alerts
<1> QED
  BY <1>1, RouteEventDated, RouteExplicitDated DEF Handle

\* A staleness or connectivity signal is held back only while one about the same
\* venue and instrument was raised within the deduplication and coalesce windows.
THEOREM StalenessCorrect == Spec => []StalenessHeldBackBriefly
<1>1. Init => SignalsAreDated
  <2> SUFFICES ASSUME Init PROVE SignalsAreDated
    OBVIOUS
  <2>1. \A e \in Alerts : e \in Identities
    BY DEF Identities, Alerts
  <2> QED
    BY <2>1 DEF Init, SignalsAreDated, NoTime
<1>2. TypeOK /\ SignalsAreDated /\ [Next]_vars => SignalsAreDated'
  <2> SUFFICES ASSUME TypeOK, SignalsAreDated, [Next]_vars
               PROVE  SignalsAreDated'
    OBVIOUS
  <2>0. /\ now \in Int /\ \A e \in Alerts : e \in Identities
        /\ \A s \in Subjects : window[s] \in Int /\ lastFired[s] \in Int
    BY ArrivingTypes DEF TypeOK, NoTime
  <2>1. CASE FinishReplay \/ UNCHANGED vars
    <3>1. UNCHANGED <<now, arriving, seen, window, lastFired>>
      BY <2>1 DEF FinishReplay, vars
    <3> QED
      BY <3>1, AlertsStay DEF SignalsAreDated
  <2>2. CASE Restart
    <3>1. /\ UNCHANGED <<now, arriving, lastFired>>
          /\ Subjects' = Subjects /\ Alerts' = Alerts
          /\ \A e \in Alerts : seen'[e] = NoTime
          /\ \A s \in Subjects : window'[s] = NoTime
      BY <2>0, <2>2, AlertsStay DEF Restart
    <3>2. \A s \in Subjects : NoTime <= lastFired[s]
      BY DEF TypeOK, NoTime
    <3> QED
      BY <3>1, <3>2 DEF SignalsAreDated
  <2>3. CASE Tick
    <3>1. /\ now' = now + 1 /\ UNCHANGED <<arriving, seen, window, lastFired>>
          /\ Subjects' = Subjects /\ Alerts' = Alerts
      BY <2>3, AlertsStay DEF Tick
    <3> QED
      BY <2>0, <3>1 DEF SignalsAreDated
  <2> QED
    BY <2>1, <2>2, <2>3, HandleDated DEF Next
<1>3. TypeOK /\ SignalsAreDated => StalenessHeldBackBriefly
  <2> SUFFICES ASSUME TypeOK, SignalsAreDated, NEW e \in Alerts,
                      Live, Rules[e.name].coalesced, IsDuplicateAlert(e) \/ CoalescesNow(e)
               PROVE  /\ lastFired[e.about] # NoTime
                      /\ now - lastFired[e.about] < DefaultWindow + CoalesceWindow
    BY DEF StalenessHeldBackBriefly
  <2>0. /\ e \in Identities /\ e.about \in Subjects /\ ~IsRecurring(e)
        /\ now \in Nat /\ DefaultWindow \in Nat /\ CoalesceWindow \in Nat \ {0}
        /\ seen[e] \in Int /\ window[e.about] \in Int /\ lastFired[e.about] \in Int
    BY ArrivingTypes, ClosedSetsAssumption, RouterAssumption DEF TypeOK, NoTime
  <2>1. CASE IsDuplicateAlert(e)
    <3>1. seen[e] # NoTime /\ ~(now - seen[e] > DefaultWindow)
      BY <2>0, <2>1 DEF IsDuplicateAlert, Unexpired, WindowOf
    <3>2. lastFired[e.about] # NoTime /\ seen[e] - lastFired[e.about] < CoalesceWindow
      BY <3>1 DEF SignalsAreDated
    <3> QED
      BY <2>0, <3>1, <3>2
  <2>2. CASE CoalescesNow(e)
    <3>1. /\ window[e.about] # NoTime /\ now - window[e.about] < CoalesceWindow
          /\ window[e.about] <= lastFired[e.about]
      BY <2>0, <2>2 DEF CoalescesNow, SignalsAreDated
    <3>2. window[e.about] \in Nat
      BY <2>0, <3>1 DEF TypeOK, NoTime
    <3> QED
      BY <2>0, <3>1, <3>2 DEF NoTime
  <2> QED
    BY <2>1, <2>2
<1> QED
  BY <1>1, <1>2, <1>3, TypeCorrect, PTL DEF Spec

=============================================================================
