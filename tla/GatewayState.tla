---------------------------- MODULE GatewayState ----------------------------
(***************************************************************************)
(* The incident gateway's in-memory state (gateway/gateway_state.py), its  *)
(* audit-acknowledgement queue (gateway/audit_ack_queue.py), the escalation *)
(* pass over it (gateway/ack_escalation.py) and the HTTP handlers that     *)
(* drive both (api/routes/safety_ops.py).                                  *)
(*                                                                         *)
(* Handlers and escalation pass are coroutines of one event loop that      *)
(* await nothing between reading and writing this state: each is one step. *)
(* An envelope keeps the fields the gateway's decisions depend on; an      *)
(* incident has a deadline, due, exactly when audit_ack_due_at is set.     *)
(***************************************************************************)
EXTENDS Integers, FiniteSets

CONSTANTS
    Keys,           (* incident keys                                        *)
    Unknown,        (* "no incident under this key"                         *)
    States,         (* incident states of the contracts package             *)
    SafeMode,       (* SAFE_MODE_ACTIVE                                     *)
    LeadsToSafe,    (* the states ALLOWED_TRANSITIONS has a path from       *)
    Severities,     (* severity hints                                       *)
    Critical,       (* the one of SEV0                                      *)
    Sla,            (* lookup_sla: the policy of each severity              *)
    EscalateWindow, (* _ESCALATE_TO_HUMAN_ACK_SECONDS                       *)
    MaxTime         (* bound on the clock                                   *)

None == -1
Policy == [default: Nat \cup {None}, secondary: Nat \cup {None},
           founder: Nat \cup {None}, physical_pager: Nat \cup {None}]

ASSUME GatewayAssumption ==
    /\ SafeMode \in LeadsToSafe /\ LeadsToSafe \subseteq States
    /\ Critical \in Severities
    /\ Sla \in [Severities -> Policy]
    /\ EscalateWindow \in Nat
    /\ MaxTime \in Nat

Steps == {"secondary", "founder", "physical_pager"}
Envelope == [state: States, severity: Severities, due: Nat \cup {None}, acked: BOOLEAN,
             operational: BOOLEAN, sent: SUBSET Steps]

ASSUME UnknownAssumption == Unknown \notin Envelope

VARIABLES
    now,        (* the clock                                                *)
    incidents,  (* GatewayState._incidents                                  *)
    queue,      (* AuditAckQueue._by_key: the keys awaiting an audit ack    *)
    silenced,   (* history: audit-acked by a human since last registered    *)
    pages       (* history: how often each step of each incident was paged  *)

vars == <<now, incidents, queue, silenced, pages>>

Known == {k \in Keys : incidents[k] # Unknown}

TypeOK ==
    /\ now \in Nat
    /\ incidents \in [Keys -> Envelope \cup {Unknown}]
    /\ queue \subseteq Keys
    /\ silenced \subseteq Keys
    /\ pages \in [Keys -> [Steps -> 0..2]]

NoPages == [s \in Steps |-> 0]

Init ==
    /\ now = 0
    /\ incidents = [k \in Keys |-> Unknown]
    /\ queue = {}
    /\ silenced = {}
    /\ pages = [k \in Keys |-> NoPages]

-----------------------------------------------------------------------------
(* The queue and the snapshots.  An operator whose name has an underscore  *)
(* is a slip: a version of the definition it is named after that the       *)
(* properties must tell apart.                                             *)

\* AuditAckQueue.enqueue: nothing without a deadline, nothing acked.
Enqueued(q, k, env) == IF env.due # None /\ ~env.acked THEN q \cup {k} ELSE q

Requeued_Reversed(q, k, env) == Enqueued(q, k, env) \ {k}

\* "dequeue first so enqueue is not a no-op" (_shorten_ack_window)
Requeued(q, k, env) == Enqueued(q \ {k}, k, env)

\* The deadline post_incident stamps on an envelope that needs one and has none.
Stamped(severity, required, due) ==
    IF required /\ due = None /\ Sla[severity].default # None
    THEN now + Sla[severity].default
    ELSE due

Disputed_Rewritten(env) ==
    IF env.state \notin LeadsToSafe THEN [env EXCEPT !.severity = Critical]
    ELSE IF env.state = SafeMode THEN env
    ELSE [env EXCEPT !.state = SafeMode, !.severity = Critical, !.sent = {}]

\* _force_safe_mode: the severity is raised on the last hop of the path; from
\* SafeMode itself there is no hop.
Disputed(env) ==
    IF env.state \notin LeadsToSafe THEN [env EXCEPT !.severity = Critical]
    ELSE IF env.state = SafeMode THEN env
    ELSE [env EXCEPT !.state = SafeMode, !.severity = Critical]

Escalated_Reopened(env) == [env EXCEPT !.due = now + EscalateWindow, !.acked = FALSE]

\* _shorten_ack_window
Escalated(env) == [env EXCEPT !.due = now + EscalateWindow]

-----------------------------------------------------------------------------
(* The escalation pass.                                                    *)

Pending == {k \in queue \cap Known : ~incidents[k].acked}

\* _incident_age_seconds
Age(env) == now - env.due + Sla[env.severity].default

Crossed(env, after, step) == after # None /\ Age(env) >= after /\ step \notin env.sent

\* _next_step: the highest step that is crossed and not sent.
NextStep(env) ==
    LET policy == Sla[env.severity]
    IN  IF Crossed(env, policy.physical_pager, "physical_pager") THEN "physical_pager"
        ELSE IF Crossed(env, policy.founder, "founder") THEN "founder"
        ELSE IF Crossed(env, policy.secondary, "secondary") THEN "secondary"
        ELSE "none"

Overdue(env) == env.due # None /\ env.due <= now /\ Sla[env.severity].default # None

Breaching_SentToo ==
    {k \in Pending : Overdue(incidents[k])
        /\ NextStep([incidents[k] EXCEPT !.sent = {}]) # "none"}

Breaching == {k \in Pending : Overdue(incidents[k]) /\ NextStep(incidents[k]) # "none"}

Recorded_Latest(env, step) == [env EXCEPT !.sent = {step}]

\* record_escalation
Recorded(env, step) == [env EXCEPT !.sent = @ \cup {step}]

-----------------------------------------------------------------------------
(* Actions.                                                                *)

\* POST /incidents.  The envelope replaces what is known under its key, acks and
\* history included; it may be one that was acked elsewhere.
PostIncident(k) ==
    \E state \in States, severity \in Severities, required, acked \in BOOLEAN :
    \E due \in {None, now} :
        LET env == [state |-> state, severity |-> severity, acked |-> acked,
                    due |-> Stamped(severity, required, due),
                    operational |-> FALSE, sent |-> {}]
        IN  /\ incidents' = [incidents EXCEPT ![k] = env]
            /\ queue' = Enqueued(queue, k, env)
            /\ silenced' = silenced \ {k}
            /\ pages' = [pages EXCEPT ![k] = NoPages]
            /\ UNCHANGED now

\* POST /incidents/{key}/operational-ack
PostOperationalAck(k) ==
    /\ k \in Known
    /\ incidents' = [incidents EXCEPT ![k].operational = TRUE]
    /\ UNCHANGED <<now, queue, silenced, pages>>

\* POST /incidents/{key}/audit-ack
PostAuditAck(k) ==
    /\ k \in Known
    /\ incidents' = [incidents EXCEPT ![k].acked = TRUE]
    /\ queue' = queue \ {k}
    /\ silenced' = silenced \cup {k}
    /\ UNCHANGED <<now, pages>>

\* POST /signoffs with verdict DISPUTE_AUTOMATED_ACTION
PostDispute(k) ==
    /\ k \in Known
    /\ incidents' = [incidents EXCEPT ![k] = Disputed(@)]
    /\ UNCHANGED <<now, queue, silenced, pages>>

\* POST /signoffs with verdict ESCALATE_TO_HUMAN.  (APPROVED and
\* APPROVED_WITH_NOTES change neither the incident nor the queue.)
PostEscalate(k) ==
    /\ k \in Known
    /\ LET env == Escalated(incidents[k])
       IN  /\ incidents' = [incidents EXCEPT ![k] = env]
           /\ queue' = Requeued(queue, k, env)
    /\ UNCHANGED <<now, silenced, pages>>

\* run_ack_escalation_tick pages one step of each breaching incident and records
\* it; a notifier that raises ends the pass, and with it the turn of the rest.
EscalationTick ==
    \E paged \in SUBSET Breaching :
        /\ paged # {}
        /\ incidents' = [k \in Keys |->
                IF k \in paged THEN Recorded(incidents[k], NextStep(incidents[k]))
                               ELSE incidents[k]]
        /\ pages' = [k \in Keys |->
                IF k \in paged
                THEN [pages[k] EXCEPT ![NextStep(incidents[k])] = IF @ < 2 THEN @ + 1 ELSE @]
                ELSE pages[k]]
        /\ UNCHANGED <<now, queue, silenced>>

\* The process restarts; nothing rehydrates its memory.
Restart ==
    /\ incidents' = [k \in Keys |-> Unknown]
    /\ queue' = {}
    /\ silenced' = {}
    /\ pages' = [k \in Keys |-> NoPages]
    /\ UNCHANGED now

Tick ==
    /\ now < MaxTime
    /\ now' = now + 1
    /\ UNCHANGED <<incidents, queue, silenced, pages>>

Next ==
    \/ \E k \in Keys :
        \/ PostIncident(k)
        \/ PostOperationalAck(k)
        \/ PostAuditAck(k)
        \/ PostDispute(k)
        \/ PostEscalate(k)
    \/ EscalationTick
    \/ Restart
    \/ Tick

Spec == Init /\ [][Next]_vars

-----------------------------------------------------------------------------
(* Properties.                                                             *)

\* An incident with a deadline that no human has audit-acked is in the queue: no
\* verdict, re-registration or shortened window takes it out ("even an APPROVED
\* LLM verdict is not a substitute for human audit-ack", process_signoff).
NoneForgotten ==
    \A k \in Known : incidents[k].due # None /\ ~incidents[k].acked => k \in queue

\* Once a human has audit-acked an incident nobody is paged about it, whatever
\* verdicts follow, until it is registered again.
SilentAfterAck ==
    [][\A k \in silenced \cap silenced' : pages'[k] = pages[k]]_vars

\* "Each step fires once" (ack_escalation): no step of an incident is paged twice
\* between two registrations, whatever verdicts come in between.
StepsFireOnce == \A k \in Keys, s \in Steps : pages[k][s] <= 1

\* What StepsFireOnce rests on: a step that was paged is in the recorded history.
PagesAreRecorded ==
    \A k \in Keys, s \in Steps :
        pages[k][s] > 0 => k \in Known /\ s \in incidents[k].sent

=============================================================================
