---------------------------- MODULE FailureAlerts ---------------------------
(***************************************************************************)
(* Escalation by error rate: the CircuitBreaker (circuit_breaker.py) as    *)
(* its three users drive it, the SERVICE_ERROR handler                     *)
(* (error_event_handler.py), the manifest consolidation rules              *)
(* (rules/consolidator_rules.py) and the feed re-fetch rules               *)
(* (rules/feed_refetch_rules.py), down to the deduplication their alerts   *)
(* go through.                                                             *)
(*                                                                         *)
(* Every map in this code is indexed by the service, bucket or feed, so    *)
(* one of them is modelled: its kind, chosen at the start, is who drives   *)
(* its breaker.  The service has one process and one thread.               *)
(***************************************************************************)
EXTENDS Integers, FiniteSets

CONSTANTS
    Window,         (* the sliding window of each kind of breaker           *)
    Threshold,      (* the errors in it that open the circuit               *)
    Cooldown,       (* how long the circuit stays open before a probe       *)
    DedupWindow,    (* the deduplication window of the kind's alert         *)
    Probing,        (* does anything call attempt_half_open, record_success?*)
    MaxErrors,      (* bound on the errors of one window                    *)
    MaxTime         (* bound on the clock                                   *)

Kinds == {"service_error", "consolidator", "feed"}

ASSUME FailureAssumption ==
    /\ Window \in [Kinds -> Nat \ {0}]
    /\ Threshold \in [Kinds -> Nat \ {0}]
    /\ Cooldown \in [Kinds -> Nat]
    /\ DedupWindow \in [Kinds -> Nat]
    /\ Probing \in BOOLEAN
    /\ MaxErrors \in Nat \ {0}
    /\ MaxTime \in Nat

VARIABLES
    now,        (* time.monotonic                                           *)
    kind,       (* what fails; never changes                                *)
    breaker,    (* the _states, _errors and _open_since of its key          *)
    seen,       (* AlertDeduplicator: when each identity was let through    *)
    cooldown,   (* the same, durable, for the kinds with a cooldown         *)
    alert,      (* history: the last alert                                 *)
    delivered,  (* history: when an escalated alert was last delivered      *)
    recent,     (* history: failures the breaker was told of, in the window *)
                (* and since the last recovery                              *)
    strikes     (* history: the same, of any age, up to the threshold       *)

vars == <<now, kind, breaker, seen, cooldown, alert, delivered, recent, strikes>>

NoTime == -1
Time == 0..MaxTime

\* The list of time stamps is a set, with a serial number to tell apart those of one
\* moment: nothing looks at its order.
Errors == Time \X (1..MaxErrors)
Breaker == [state: {"CLOSED", "OPEN", "HALF_OPEN"}, errors: SUBSET Errors, openSince: Time \cup {NoTime}]
Fresh == [state |-> "CLOSED", errors |-> {}, openSince |-> NoTime]

Identities == BOOLEAN \X (0..MaxErrors)
NoStamps == [i \in Identities |-> NoTime]

TypeOK ==
    /\ now \in Time
    /\ kind \in Kinds
    /\ breaker \in Breaker
    /\ Cardinality(breaker.errors) <= MaxErrors
    /\ seen \in [Identities -> Time \cup {NoTime}]
    /\ cooldown \in [Identities -> Time \cup {NoTime}]
    /\ alert \in [at: Time \cup {NoTime}, escalated: BOOLEAN]
    /\ delivered \in Time \cup {NoTime}
    /\ recent \subseteq Errors /\ Cardinality(recent) <= MaxErrors
    /\ strikes \in 0..Threshold[kind]

Init ==
    /\ now = 0
    /\ kind \in Kinds
    /\ breaker = Fresh
    /\ seen = NoStamps
    /\ cooldown = NoStamps
    /\ alert = [at |-> NoTime, escalated |-> FALSE]
    /\ delivered = NoTime
    /\ recent = {}
    /\ strikes = 0

-----------------------------------------------------------------------------
(* The breaker.  An operator whose name has an underscore is a slip: a     *)
(* version of the definition it is named after that the properties must    *)
(* tell apart.                                                             *)

\* _prune_old_errors
Pruned(errors) == {e \in errors : e[1] > now - Window[kind]}

\* The list with one more error, of this moment.
Appended(errors) ==
    errors \cup {<<now, CHOOSE n \in 1..MaxErrors : <<now, n>> \notin errors>>}

AfterError_Unpruned(b) ==
    IF b.state = "HALF_OPEN"
    THEN [b EXCEPT !.state = "OPEN", !.openSince = now]
    ELSE LET errors == Appended(b.errors)
         IN  IF b.state = "CLOSED" /\ Cardinality(errors) >= Threshold[kind]
             THEN [state |-> "OPEN", errors |-> errors, openSince |-> now]
             ELSE [b EXCEPT !.errors = errors]

AfterError_Patient(b) ==
    LET errors == Pruned(Appended(b.errors))
    IN  IF b.state = "CLOSED" /\ Cardinality(errors) >= Threshold[kind]
        THEN [state |-> "OPEN", errors |-> errors, openSince |-> now]
        ELSE [b EXCEPT !.errors = errors]

\* record_error.  An error of a probe reopens the circuit and is not counted.
AfterError(b) ==
    IF b.state = "HALF_OPEN"
    THEN [b EXCEPT !.state = "OPEN", !.openSince = now]
    ELSE LET errors == Pruned(Appended(b.errors))
         IN  IF b.state = "CLOSED" /\ Cardinality(errors) >= Threshold[kind]
             THEN [state |-> "OPEN", errors |-> errors, openSince |-> now]
             ELSE [b EXCEPT !.errors = errors]

CanProbe(b) == b.state = "OPEN" /\ now - b.openSince >= Cooldown[kind]

AfterSuccess_Remembers(b) ==
    IF b.state = "HALF_OPEN" THEN [b EXCEPT !.state = "CLOSED", !.openSince = NoTime] ELSE b

\* record_success.  Only that of a probe closes the circuit, and forgets the errors.
AfterSuccess(b) == IF b.state = "HALF_OPEN" THEN Fresh ELSE b

-----------------------------------------------------------------------------
(* What its users make of it.                                              *)

\* record_error returned "OPEN", or, for the rules, the circuit was open already.
Escalates(before, after) ==
    /\ after.state = "OPEN"
    /\ kind = "service_error" => before.state # "OPEN"

Identity_PerKey(escalated, count) == <<FALSE, 0>>

\* What is left of an alert's details in the deduplication key: its severity, its
\* escalation_reason and failures_in_window, but nothing of CIRCUIT_BREAKER_OPEN,
\* whose message is volatile.
Identity(escalated, count) == <<escalated, IF kind = "service_error" THEN 0 ELSE count>>

\* MANIFEST_CONSOLIDATION_FAILED and FEED_REFETCH_FAILED are in the cooldown table.
Recurring == kind # "service_error"

IsDuplicateAlert(i) ==
    \/ Recurring /\ cooldown[i] # NoTime /\ now - cooldown[i] < DedupWindow[kind]
    \/ seen[i] # NoTime /\ now - seen[i] <= DedupWindow[kind]

-----------------------------------------------------------------------------
(* Actions.                                                                *)

\* A failure is reported: handle_service_error,
\* handle_manifest_consolidation_failed_payload, handle_refetch_failed.  The count
\* of the alert is taken after the breaker has moved, from what is left of its
\* window.  A service error has routed an alert of its own before that, whatever
\* the breaker says; that one is the router's business.
Fail ==
    /\ Cardinality(Pruned(breaker.errors)) < MaxErrors
    /\ Cardinality(Pruned(recent)) < MaxErrors
    /\ LET moved == AfterError(breaker)
           errors == IF kind # "service_error" \/ Escalates(breaker, moved)
                     THEN Pruned(moved.errors) ELSE moved.errors
           escalated == Escalates(breaker, moved)
           id == Identity(escalated, Cardinality(errors))
           routes == kind # "service_error" \/ escalated
           passes == routes /\ ~IsDuplicateAlert(id)
       IN  /\ breaker' = [moved EXCEPT !.errors = errors]
           /\ seen' = IF passes THEN [seen EXCEPT ![id] = now] ELSE seen
           /\ cooldown' = IF passes /\ Recurring THEN [cooldown EXCEPT ![id] = now] ELSE cooldown
           /\ delivered' = IF passes /\ escalated THEN now ELSE delivered
           /\ alert' = [at |-> now, escalated |-> escalated]
    /\ recent' = Pruned(Appended(recent))
    /\ strikes' = IF strikes < Threshold[kind] THEN strikes + 1 ELSE strikes
    /\ UNCHANGED <<now, kind>>

\* The routing of a service error's own alert raises: handle_service_error ends
\* there, before the breaker has heard of the failure.
FailUncounted ==
    /\ kind = "service_error"
    /\ alert' = [at |-> now, escalated |-> FALSE]
    /\ UNCHANGED <<now, kind, breaker, seen, cooldown, delivered, recent, strikes>>

\* attempt_half_open
Probe ==
    /\ Probing
    /\ CanProbe(breaker)
    /\ breaker' = [breaker EXCEPT !.state = "HALF_OPEN"]
    /\ UNCHANGED <<now, kind, seen, cooldown, alert, delivered, recent, strikes>>

\* record_success
Succeed ==
    /\ Probing
    /\ breaker' = AfterSuccess(breaker)
    /\ IF breaker.state = "HALF_OPEN"
       THEN recent' = {} /\ strikes' = 0
       ELSE UNCHANGED <<recent, strikes>>
    /\ UNCHANGED <<now, kind, seen, cooldown, alert, delivered>>

\* A redeploy: the breaker and the in-process deduplication start afresh.
Restart ==
    /\ breaker' = Fresh
    /\ seen' = NoStamps
    /\ recent' = {}
    /\ strikes' = 0
    /\ UNCHANGED <<now, kind, cooldown, alert, delivered>>

Tick ==
    /\ now < MaxTime
    /\ now' = now + 1
    /\ UNCHANGED <<kind, breaker, seen, cooldown, alert, delivered, recent, strikes>>

Next == Fail \/ FailUncounted \/ Probe \/ Succeed \/ Restart \/ Tick

Spec == Init /\ [][Next]_vars

-----------------------------------------------------------------------------
(* Properties.                                                             *)

\* A crash loop is told as one: once Threshold failures that reached the breaker,
\* probes that failed included, have fallen into one window since the last
\* recovery, the circuit is not closed and the last alert of the rules was
\* escalated.
CrashLoopEscalates ==
    Cardinality(recent) >= Threshold[kind] =>
        /\ breaker.state # "CLOSED"
        /\ kind # "service_error" => alert.escalated

\* No first blip is escalated: after a recovery or a redeploy it takes Threshold
\* failures again to open the circuit, whatever the window still holds.
OpensOnStrikesOnly == breaker.state # "CLOSED" => strikes = Threshold[kind]

\* The cooldown of the milder alerts never swallows the escalation: when an alert
\* was escalated, an escalated one was let through to its channels within the
\* deduplication window before it, across redeploys.
EscalationIsDelivered ==
    alert.escalated =>
        /\ delivered # NoTime
        /\ alert.at - delivered <= DedupWindow[kind]

=============================================================================
