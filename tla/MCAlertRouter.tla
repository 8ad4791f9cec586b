---------------------------- MODULE MCAlertRouter ---------------------------
(* Instances of AlertRouter: the shapes of one data-pipeline condition; the *)
(* two coalesced signals about one venue, with a drill; and a mix of one    *)
(* event of each remaining family, live and replayed.                       *)
EXTENDS AlertRouter

Rule(name, family, severity, window_, channels) ==
    [family |-> family, severity |-> severity, mirror_live |-> TRUE, window |-> window_,
     channels |-> channels, runtime |-> TRUE, kill_switch |-> FALSE, coalesced |-> FALSE,
     becomes |-> name, forwards |-> TRUE, stamps |-> FALSE]

Plain(name, about) ==
    [name |-> name, about |-> about, severity |-> NoStamp, resolved |-> FALSE,
     is_static_backlog |-> FALSE, synthetic |-> FALSE]

\* One cell of a CRITICAL recurring rule: fresh, stamped by the emitter with
\* another severity, resolved, and a static backlog.
Cell == Plain("DP_RUN_MOSTLY_EMPTY", "cell")
PageEvents == {Cell, [Cell EXCEPT !.severity = "WARN"], [Cell EXCEPT !.resolved = TRUE],
               [Cell EXCEPT !.is_static_backlog = TRUE]}

\* The two coalesced signals, and a drill of one of them.
Tick1 == Plain("TICK_STALENESS", "venue")
Gap1 == Plain("CONNECTIVITY_GAP_DETECTED", "venue")
SignalEvents == {Tick1, Gap1, [Gap1 EXCEPT !.synthetic = TRUE]}

Drill(e) == [e EXCEPT !.synthetic = TRUE]

\* One event of each other family, the typed one stamped by its handler; a drill that
\* stays one, and one that its handler makes a kill-switch alert of.
MixEvents ==
    {Plain("CONSOLIDATOR_DOWN", "bucket"), Plain("DEPLOYMENT_FAILED", "vm"),
     Plain("DP_MUTED", "vm"), Plain("CI_NOTICE", "repo"),
     Drill(Plain("KILL_SWITCH_ACTIVATED", "firm")),
     Drill(Plain("ML_SIGNAL_STALENESS", "firm"))}

MCTraffic == {PageEvents, SignalEvents, MixEvents}

\* The windows of the mix are short, and its events many.
MCMaxTime == [t \in MCTraffic |-> IF t = PageEvents THEN 5 ELSE IF t = SignalEvents THEN 5 ELSE 2]

MCRules ==
    [n \in {"DP_RUN_MOSTLY_EMPTY", "TICK_STALENESS", "CONNECTIVITY_GAP_DETECTED",
            "KILL_SWITCH_ACTIVATED", "ML_SIGNAL_STALENESS", "CONSOLIDATOR_DOWN", "DEPLOYMENT_FAILED", "DP_MUTED",
            "CI_NOTICE"} |->
        CASE n = "DP_RUN_MOSTLY_EMPTY" -> Rule(n, "data_pipeline", "CRITICAL", 3, {"slack"})
          [] n \in {"TICK_STALENESS", "CONNECTIVITY_GAP_DETECTED"} ->
                [Rule(n, "generic", "WARN", 0, {"telegram"}) EXCEPT !.coalesced = TRUE]
          [] n = "KILL_SWITCH_ACTIVATED" ->
                [Rule(n, "generic", "CRITICAL", 0, {"pagerduty", "telegram"})
                    EXCEPT !.kill_switch = TRUE]
          [] n = "ML_SIGNAL_STALENESS" ->
                [Rule("KILL_SWITCH_ACTIVATED", "typed", "CRITICAL", 0, {}) EXCEPT !.forwards = FALSE]
          [] n = "CONSOLIDATOR_DOWN" ->
                [Rule(n, "typed", "CRITICAL", 2, {"pagerduty", "telegram"}) EXCEPT !.stamps = TRUE]
          [] n = "DEPLOYMENT_FAILED" -> Rule(n, "deployment", "CRITICAL", 0, {"slack"})
          [] n = "DP_MUTED" ->
                [Rule(n, "data_pipeline", "WARN", 0, {"slack"}) EXCEPT !.mirror_live = FALSE]
          [] n = "CI_NOTICE" ->
                [Rule(n, "generic", "INFO", 0, {"log_only"}) EXCEPT !.runtime = FALSE]]

=============================================================================
