----------------------------- MODULE AlertRouter ----------------------------
(***************************************************************************)
(* The event router (notifiers/router.py): deduplication, the coalesce     *)
(* window, synthetic suppression, the data-pipeline / deployment branch    *)
(* with its nested incident page, the generic branch with its kill-switch  *)
(* hook, and batch replay, which audits instead of delivering.             *)
(*                                                                         *)
(* A call of route_event runs to its end on the event loop without a pause *)
(* (nothing in it awaits), so it is one step here.  The store behind the   *)
(* cooldowns is taken to work: its failures are the subject of AlertDedup. *)
(* What each channel answers is chosen freely at every call.               *)
(*                                                                         *)
(* An event is its name and the identity details deduplication hashes:     *)
(* what it is about, the severity stamped on the payload, and the flags.   *)
(* It is its own deduplication key, which is what hashing them means.  A   *)
(* typed event is first handed to its handler, which may build a new alert *)
(* of it under another name.                                               *)
(***************************************************************************)
EXTENDS Integers

CONSTANTS
    Traffic,            (* the sets of events that may arrive together      *)
    Rules,              (* what the rule tables say of each event name      *)
    DefaultWindow,      (* the deduplicator's own window                    *)
    BacklogWindow,      (* the window of a STATIC BACKLOG cell              *)
    CoalesceWindow,     (* COALESCE_WINDOW_SECONDS                          *)
    PagerDutySuppressed,(* pagerduty_disabled or quietness_baseline_mode    *)
    MaxTime,            (* bound on the clock, for each set of events       *)
    MaxReplayed         (* bound on the events of one replay                *)

Events == UNION Traffic

Severities == {"INFO", "WARN", "CRITICAL"}
NoStamp == "unstamped"
Channels == {"pagerduty", "telegram", "slack", "log_only"}
Families == {"data_pipeline", "deployment", "generic", "typed"}

\* window is the recurring cooldown of the name, 0 when it has none.  Of an event
\* with a handler: the name of the alert it becomes, whether the handler passes the
\* event's flags on, and whether it stamps the severity of the alert on it.
RuleType == [family: Families, severity: Severities, mirror_live: BOOLEAN,
             window: Nat, channels: SUBSET Channels, runtime: BOOLEAN,
             kill_switch: BOOLEAN, coalesced: BOOLEAN,
             becomes: DOMAIN Rules, forwards: BOOLEAN, stamps: BOOLEAN]

EventType == [name: DOMAIN Rules, about: STRING, severity: Severities \cup {NoStamp},
              resolved: BOOLEAN, is_static_backlog: BOOLEAN, synthetic: BOOLEAN]

ASSUME RouterAssumption ==
    /\ \A n \in DOMAIN Rules : Rules[n] \in RuleType
    /\ Events \subseteq EventType
    /\ DefaultWindow \in Nat /\ BacklogWindow \in Nat /\ CoalesceWindow \in Nat \ {0}
    /\ PagerDutySuppressed \in BOOLEAN
    /\ MaxTime \in [Traffic -> Nat] /\ MaxReplayed \in Nat

VARIABLES
    now,        (* the clock                                                *)
    arriving,   (* the events that arrive; it never changes                 *)
    mode,       (* "live", "batch" (replaying) or "reported"                *)
    seen,       (* AlertDeduplicator._seen                                  *)
    cooldown,   (* the durable recurring cooldowns                          *)
    window,     (* _coalesce_window: when each subject last fired           *)
    replayed,   (* how many events the replay has routed                    *)
    lastPaged,  (* history: when each condition was last paged              *)
    lastFired,  (* history: when a coalesced signal last got past the window*)
    out,        (* history: what the last call did                          *)
    drill       (* history: whether its event was a drill, and still bore   *)
                (* the flag of one when the router had it                   *)

vars == <<now, arriving, mode, seen, cooldown, window, replayed, lastPaged,
          lastFired, out, drill>>

NoTime == -1
Stamp(e, severity) == [e EXCEPT !.severity = severity]
\* What the router is handed for an event: the event, or the alert its handler
\* builds (dispatch_event), by some handlers of fresh details.
Handed(e) ==
    LET rule == Rules[e.name]
    IN  [e EXCEPT !.name = rule.becomes,
                  !.severity = IF rule.stamps THEN Rules[rule.becomes].severity ELSE @,
                  !.resolved = @ /\ rule.forwards,
                  !.is_static_backlog = @ /\ rule.forwards,
                  !.synthetic = @ /\ rule.forwards]

Alerts == {Handed(e) : e \in arriving}

Identities == Alerts \cup {Stamp(e, "CRITICAL") : e \in Alerts}
Subjects == {e.about : e \in Alerts}

\* What a page is about, whatever severity the emitter stamped on the event.
Condition(e) == Stamp(e, NoStamp)
Conditions == {Condition(e) : e \in Alerts}

\* What one call did: the fate of the event, and what was attempted for it.
Verdicts == {"none", "duplicate", "coalesced", "suppressed_synthetic", "audited",
             "not_mirrored", "mirrored", "dispatched"}
Effect == [verdict: Verdicts, mirrored: BOOLEAN, paged: BOOLEAN, emailed: BOOLEAN,
           posted: BOOLEAN, failed: BOOLEAN, published: BOOLEAN, offered: BOOLEAN]
Nothing == [verdict |-> "none", mirrored |-> FALSE, paged |-> FALSE,
            emailed |-> FALSE, posted |-> FALSE, failed |-> FALSE,
            published |-> FALSE, offered |-> FALSE]
Did(verdict) == [Nothing EXCEPT !.verdict = verdict]

TypeOK ==
    /\ arriving \in Traffic
    /\ now \in 0..MaxTime[arriving]
    /\ mode \in {"live", "batch", "reported"}
    /\ seen \in [Identities -> 0..MaxTime[arriving] \cup {NoTime}]
    /\ cooldown \in [Identities -> 0..MaxTime[arriving] \cup {NoTime}]
    /\ window \in [Subjects -> 0..MaxTime[arriving] \cup {NoTime}]
    /\ replayed \in 0..MaxReplayed
    /\ lastPaged \in [Conditions -> 0..MaxTime[arriving] \cup {NoTime}]
    /\ lastFired \in [Subjects -> 0..MaxTime[arriving] \cup {NoTime}]
    /\ out \in Effect
    /\ drill \in {"none", "flagged", "stripped"}

Init ==
    /\ now = 0
    /\ arriving \in Traffic
    /\ mode \in {"live", "batch"}
    /\ seen = [i \in Identities |-> NoTime]
    /\ cooldown = [i \in Identities |-> NoTime]
    /\ window = [s \in Subjects |-> NoTime]
    /\ replayed = 0
    /\ lastPaged = [c \in Conditions |-> NoTime]
    /\ lastFired = [s \in Subjects |-> NoTime]
    /\ out = Nothing
    /\ drill = "none"

-----------------------------------------------------------------------------
(* Deduplication.                                                          *)

IsStaticBacklog(e) == e.name = "DP_RUN_MOSTLY_EMPTY" /\ e.is_static_backlog

\* dedup_window_for: the cooldown of a recurring alert, 0 when it has none.
RecurringWindow(e) == IF IsStaticBacklog(e) THEN BacklogWindow ELSE Rules[e.name].window
IsRecurring(e) == RecurringWindow(e) # 0
WindowOf(e) == IF IsRecurring(e) THEN RecurringWindow(e) ELSE DefaultWindow

\* How the closed sets of the code fit together: the two signals that are coalesced
\* have no cooldown (recurring_alert_cooldowns.py) and no typed handler, and the
\* typed handlers of the recurring names stamp the severity they page with
\* (consolidator_rules._enrich, feed_refetch_rules.handle_refetch_failed).
ASSUME ClosedSetsAssumption ==
    \A e \in {Handed(f) : f \in Events} :
        /\ Rules[e.name].coalesced => ~IsRecurring(e) /\ Rules[e.name].family # "typed"
        /\ Rules[e.name].family = "typed" /\ Rules[e.name].severity = "CRITICAL" /\ IsRecurring(e)
            => e.severity = "CRITICAL"

Unexpired(i) ==
    IF seen[i] # NoTime /\ now - seen[i] > WindowOf(i) THEN NoTime ELSE seen[i]

\* _is_duplicate_alert; a replay does not consult the durable cooldowns.
IsDuplicateAlert(i) ==
    \/ /\ mode = "live" /\ IsRecurring(i)
       /\ cooldown[i] # NoTime /\ now - cooldown[i] < WindowOf(i)
    \/ Unexpired(i) # NoTime

(* An operator whose name has an underscore is a slip: a version of the    *)
(* definition it is named after that the properties must tell apart.       *)

Remember_Deadline(accepted) ==
    /\ seen' = [i \in Identities |-> IF i \in accepted THEN now + WindowOf(i) ELSE Unexpired(i)]
    /\ cooldown' = [i \in Identities |->
            IF i \in accepted /\ mode = "live" /\ IsRecurring(i) THEN now ELSE cooldown[i]]

Remember_InMemory(accepted) ==
    /\ seen' = [i \in Identities |-> IF i \in accepted THEN now ELSE Unexpired(i)]
    /\ UNCHANGED cooldown

Remember_InReplay(accepted) ==
    /\ seen' = [i \in Identities |-> IF i \in accepted THEN now ELSE Unexpired(i)]
    /\ cooldown' = [i \in Identities |->
            IF i \in accepted /\ IsRecurring(i) THEN now ELSE cooldown[i]]

\* Its side effect on the identities it lets through.
Remember(accepted) ==
    /\ seen' = [i \in Identities |-> IF i \in accepted THEN now ELSE Unexpired(i)]
    /\ cooldown' = [i \in Identities |->
            IF i \in accepted /\ mode = "live" /\ IsRecurring(i) THEN now ELSE cooldown[i]]

-----------------------------------------------------------------------------
(* Channels.                                                               *)

\* _match_routing_rules and _parse_rule_channels: first rule that matches; an
\* empty list means "log only", no rule at all means Slack.
MatchedChannels(e) == Rules[e.name].channels

\* _deliver_to_channels.  answers says whether PagerDuty and Slack accept.
Delivery(e, channels, critical, answers) ==
    LET pages == "pagerduty" \in channels /\ ~PagerDutySuppressed
        posts == /\ channels \cap {"slack", "telegram"} # {} \/ channels = {}
                 /\ Rules[e.name].runtime
    IN  [paged |-> pages,
         emailed |-> pages /\ ~answers.pagerduty /\ critical,
         posted |-> posts,
         failed |-> (pages /\ ~answers.pagerduty) \/ (posts /\ ~answers.slack)]

Answers == [pagerduty: BOOLEAN, slack: BOOLEAN]

NoDelivery == [paged |-> FALSE, emailed |-> FALSE, posted |-> FALSE, failed |-> FALSE]

With(effect, d) ==
    [effect EXCEPT !.paged = d.paged, !.emailed = d.emailed,
                   !.posted = d.posted, !.failed = d.failed]

\* Effective severity of a data-pipeline or deployment event.
EffectiveSeverity(e) ==
    IF Rules[e.name].severity = "CRITICAL" /\ IsStaticBacklog(e)
    THEN "WARN" ELSE Rules[e.name].severity

RoutedSeverity(e) == IF e.resolved THEN "INFO" ELSE EffectiveSeverity(e)

-----------------------------------------------------------------------------
(* The branches of route_event, in its order.                              *)

Live == mode = "live"
Replaying == mode = "batch" /\ replayed < MaxReplayed
Accepts == Live \/ Replaying

\* The audit of a replay counts the event.
Count == replayed' = IF mode = "batch" THEN replayed + 1 ELSE replayed

DropDuplicate(e) ==
    /\ IsDuplicateAlert(e)
    /\ Remember({})
    /\ Count
    /\ out' = Did("duplicate")
    /\ UNCHANGED <<window, lastPaged, lastFired>>

CoalescesNow_Inclusive(e) ==
    /\ Rules[e.name].coalesced
    /\ window[e.about] # NoTime
    /\ now - window[e.about] <= CoalesceWindow

\* check_coalesce_window: an event of the closed set is merged into the one
\* that fired for the same subject less than a window ago.
CoalescesNow(e) ==
    /\ Rules[e.name].coalesced
    /\ window[e.about] # NoTime
    /\ now - window[e.about] < CoalesceWindow

Coalesce(e) ==
    /\ ~IsDuplicateAlert(e) /\ CoalescesNow(e)
    /\ Remember({e})
    /\ out' = Did("coalesced")
    /\ UNCHANGED <<window, replayed, lastPaged, lastFired>>

\* The event survives both filters; one of the set opens a window of its own.
Passes(e) ==
    /\ ~IsDuplicateAlert(e) /\ ~CoalescesNow(e)
    /\ window' = IF Rules[e.name].coalesced
                 THEN [window EXCEPT ![e.about] = now] ELSE window
    /\ lastFired' = IF Rules[e.name].coalesced
                    THEN [lastFired EXCEPT ![e.about] = now] ELSE lastFired

\* Logged and audited, never delivered.
RouteSynthetic(e) ==
    /\ Passes(e) /\ e.synthetic
    /\ Remember({e})
    /\ Count
    /\ out' = Did("suppressed_synthetic")
    /\ UNCHANGED lastPaged

\* A replay records what would have been delivered.
RouteBatchAudit(e) ==
    /\ Passes(e) /\ ~e.synthetic /\ mode = "batch"
    /\ Remember({e})
    /\ Count
    /\ out' = Did("audited")
    /\ UNCHANGED lastPaged

\* A data-pipeline rule may keep its event off the live surfaces.
RouteNotMirrored(e) ==
    /\ Passes(e) /\ ~e.synthetic /\ Live
    /\ Rules[e.name].family = "data_pipeline" /\ ~Rules[e.name].mirror_live
    /\ Remember({e})
    /\ out' = Did("not_mirrored")
    /\ UNCHANGED <<replayed, lastPaged>>

\* _route_data_pipeline_event: the channel mirror, the incident page of a
\* CRITICAL one, and the offer to the orchestrator.  The page goes through
\* route_event_with_explicit_channels, so through deduplication again, under the
\* identity of the event with its severity stamped on it.
RouteDataPipeline(e) ==
    /\ Passes(e) /\ ~e.synthetic /\ Live
    /\ \/ Rules[e.name].family = "data_pipeline" /\ Rules[e.name].mirror_live
       \/ Rules[e.name].family = "deployment"
    /\ LET severity == RoutedSeverity(e)
           page == Stamp(e, severity)
           pages == severity = "CRITICAL" /\ page # e /\ ~IsDuplicateAlert(page)
       IN  /\ Remember(IF pages THEN {e, page} ELSE {e})
           /\ \E answers \in Answers :
                LET d == IF pages
                         THEN Delivery(e, {"pagerduty", "telegram"}, TRUE, answers)
                         ELSE NoDelivery
                IN  out' = With([Did("mirrored") EXCEPT !.mirrored = TRUE, !.offered = TRUE], d)
           /\ lastPaged' = IF pages THEN [lastPaged EXCEPT ![Condition(e)] = now]
                                    ELSE lastPaged
    /\ UNCHANGED replayed

\* Generic branch: the channels of the first rule that matches, then, whatever
\* they answered, the kill-switch hook.
RouteGeneric(e) ==
    /\ Passes(e) /\ ~e.synthetic /\ Live
    /\ Rules[e.name].family = "generic"
    /\ Remember({e})
    /\ \E answers \in Answers :
        out' = With([Did("dispatched") EXCEPT !.published = Rules[e.name].kill_switch],
                    Delivery(e, MatchedChannels(e), Rules[e.name].severity = "CRITICAL", answers))
    /\ UNCHANGED <<replayed, lastPaged>>

RouteEvent(e) ==
    /\ Accepts
    /\ Rules[e.name].family # "typed"
    /\ \/ DropDuplicate(e)
       \/ Coalesce(e)
       \/ RouteSynthetic(e)
       \/ RouteBatchAudit(e)
       \/ RouteNotMirrored(e)
       \/ RouteDataPipeline(e)
       \/ RouteGeneric(e)
    /\ UNCHANGED <<now, arriving, mode>>

\* route_event_with_explicit_channels, as the typed handlers call it: no
\* coalescing, no kill-switch hook.
RouteExplicit(e) ==
    /\ Accepts
    /\ Rules[e.name].family = "typed"
    /\ \/ DropDuplicate(e) /\ UNCHANGED <<now, arriving, mode>>
       \/ /\ ~IsDuplicateAlert(e)
          /\ Remember({e})
          /\ LET delivers == Live /\ ~e.synthetic
                 critical == Rules[e.name].severity = "CRITICAL"
             IN  IF delivers
                 THEN /\ \E answers \in Answers :
                            out' = With(Did("dispatched"),
                                        Delivery(e, MatchedChannels(e), critical, answers))
                      /\ lastPaged' = IF critical THEN [lastPaged EXCEPT ![Condition(e)] = now]
                                                  ELSE lastPaged
                      /\ UNCHANGED replayed
                 ELSE /\ out' = Did(IF e.synthetic THEN "suppressed_synthetic" ELSE "audited")
                      /\ Count
                      /\ UNCHANGED lastPaged
          /\ UNCHANGED <<now, arriving, mode, window, lastFired>>

\* What the subscriber, or a replay, does with an event.
Handle(e) ==
    /\ RouteEvent(Handed(e)) \/ RouteExplicit(Handed(e))
    /\ drill' = CASE ~e.synthetic -> "none"
                  [] e.synthetic /\ Rules[e.name].forwards -> "flagged"
                  [] OTHER -> "stripped"

-----------------------------------------------------------------------------
(* The process around the router.                                          *)

\* main._run_batch_replay leaves batch mode, which clears the counters, and ends.
FinishReplay ==
    /\ mode = "batch"
    /\ mode' = "reported"
    /\ UNCHANGED <<now, arriving, seen, cooldown, window, replayed, lastPaged,
                   lastFired, out, drill>>

\* A redeploy of the live service: its memory goes, the cooldowns stay.
Restart ==
    /\ Live
    /\ seen' = [i \in Identities |-> NoTime]
    /\ window' = [s \in Subjects |-> NoTime]
    /\ UNCHANGED <<now, arriving, mode, cooldown, replayed, lastPaged, lastFired, out, drill>>

Tick ==
    /\ now < MaxTime[arriving]
    /\ now' = now + 1
    /\ UNCHANGED <<arriving, mode, seen, cooldown, window, replayed,
                   lastPaged, lastFired, out, drill>>

Next ==
    \/ \E e \in arriving : Handle(e)
    \/ FinishReplay
    \/ Restart
    \/ Tick

Spec == Init /\ [][Next]_vars

-----------------------------------------------------------------------------
(* Properties.                                                             *)

\* What arrives now would be paged (the nested and the explicit path).
WouldPage(e) ==
    /\ Live /\ ~e.synthetic /\ ~IsDuplicateAlert(e)
    /\ \/ /\ Rules[e.name].family = "typed" /\ Rules[e.name].severity = "CRITICAL"
       \/ /\ Rules[e.name].family \in {"data_pipeline", "deployment"}
          /\ Rules[e.name].mirror_live
          /\ RoutedSeverity(e) = "CRITICAL"
          /\ e # Stamp(e, "CRITICAL") /\ ~IsDuplicateAlert(Stamp(e, "CRITICAL"))

\* A condition with a cooldown is paged once per window, however many shapes of
\* the same event arrive (stamped with a severity by the emitter or not), across
\* redeploys: it is the identity of the page, not of the event, that is cooled down.
OnePagePerWindow ==
    \A e \in Alerts :
        /\ IsRecurring(e) /\ lastPaged[Condition(e)] # NoTime
        /\ now - lastPaged[Condition(e)] < WindowOf(e)
        => ~WouldPage(e)

\* A staleness or connectivity signal is held back, as a duplicate or merged into
\* another, only while a signal about the same venue and instrument was raised
\* within the deduplication window plus the coalesce window: a merged signal opens
\* a deduplication window of its own, though nothing of it was delivered.
StalenessHeldBackBriefly ==
    \A e \in Alerts :
        /\ Live /\ Rules[e.name].coalesced
        /\ IsDuplicateAlert(e) \/ CoalescesNow(e)
        => /\ lastFired[e.about] # NoTime
           /\ now - lastFired[e.about] < DefaultWindow + CoalesceWindow

\* Nothing leaves the service during a replay, nor for a drill whose flag is still
\* on what its handler hands to the router: no mirror, page, mail, post, kill-switch
\* event or orchestrator offer; and a replay leaves the live cooldowns alone.  The
\* drill of an event whose handler builds fresh details is a real alert to the
\* router: ML_SIGNAL_STALENESS of a day pages and fires the bus.
DrillsAreSilent ==
    /\ mode # "live" \/ drill = "flagged" =>
        /\ ~out.mirrored /\ ~out.paged /\ ~out.emailed /\ ~out.posted
        /\ ~out.published /\ ~out.offered
    /\ mode # "live" => \A i \in Identities : cooldown[i] = NoTime

=============================================================================
