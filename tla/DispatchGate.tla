----------------------------- MODULE DispatchGate ---------------------------
(***************************************************************************)
(* The way of one data-pipeline finding to the orchestrator: a detector    *)
(* sweeps, the router deduplicates (AlertRouter), the escalation ladder    *)
(* counts (LadderRules), the dispatch checkpoint asks whether anything     *)
(* happened since, and GitHub is told (orchestrator_dispatch_gate.py,      *)
(* orchestrator_dispatch_budget.py, orchestrator_dispatch.py).             *)
(*                                                                         *)
(* One process and one escalation identity; the bucket works (its failures *)
(* are the subject of EscalationLadder).  The process may crash between    *)
(* any two of the remote calls, and time may pass between them, up to the  *)
(* sum of their timeouts.  A moment is its age, as in LadderRules, so the  *)
(* clock needs no bound.  The daily window of a DP_RUN_MOSTLY_EMPTY static *)
(* backlog is left to AlertRouter: here both labels of a finding have the  *)
(* window of its name.                                                     *)
(***************************************************************************)
EXTENDS LadderRules

CONSTANTS
    Kinds,          (* the kinds of finding to look at, see Kind            *)
    DefaultDedup,   (* the window of the deduplicator for any other event   *)
    Cadence,        (* a sweep comes at most so long after the last         *)
    CallTime,       (* bound on the time one finding is being handled       *)
    Findings,       (* what may be found, see Finding                       *)
    GithubMayFail,  (* may the POST fail?                                   *)
    SecretMayFail,  (* may the GH_PAT probe fail?                           *)
    MaxCrashes      (* bound on the crashes                                 *)

\* Is its name in RECURRING_ALERT_COOLDOWNS, and does it carry the tuple
\* (asset_group_name, data_type)?
Kind == [recurring: BOOLEAN, tupleShaped: BOOLEAN]

\* What distinguishes two findings of the identity: max_attempted_at, the newest
\* attempt (0 when none is resolvable, the empty string of the code) and
\* is_static_backlog.  Both are hashed into the deduplication key.
Finding == [attempted: Nat, backlog: BOOLEAN]
FirstFinding == [attempted |-> 0, backlog |-> FALSE]

ASSUME GateAssumption ==
    /\ Kinds \subseteq Kind
    /\ Findings \subseteq Finding /\ FirstFinding \in Findings
    /\ DefaultDedup \in 0..Window
    /\ Threshold > 2
    /\ Cadence \in Nat /\ CallTime \in 0..Cadence /\ CallTime < Window
    /\ GithubMayFail \in BOOLEAN /\ SecretMayFail \in BOOLEAN
    /\ MaxCrashes \in Nat

Attempts == {f.attempted : f \in Findings}
NoCheckpoint == -1

VARIABLES
    kind,       (* the kind of the finding; it never changes                *)
    persisting, (* the condition persists                                   *)
    sinceSweep, (* ticks since the detector's last sweep                    *)
    fraction,   (* of the second, gone by on the clock                      *)
    seen,       (* age of each entry of AlertDeduplicator._seen             *)
    cooldown,   (* age of each durable cooldown                             *)
    ladder,     (* the ladder record; it exists once it counts something    *)
    checkpoint, (* max_attempted_at of the dispatch checkpoint              *)
    pc,         (* what the process does next with the finding in hand      *)
    finding,    (* the finding in hand; FirstFinding when there is none     *)
    token,      (* the cached answer of _probe_gh_pat                       *)
    crashes,    (* crashes so far                                           *)
    served,     (* history: dispatched since the condition appeared         *)
    lastSent,   (* history: the last attempt GitHub was told of, or 0       *)
    movedBack,  (* history: since then, the checkpoint was put before it    *)
    sinceLoud   (* history: age of the last call of dispatch_to_orchestrator    *)

clockVars == <<sinceSweep, fraction>>
dedupVars == <<seen, cooldown>>
historyVars == <<served, lastSent, movedBack, sinceLoud>>
vars == <<kind, persisting, clockVars, dedupVars, ladder, checkpoint, pc, finding, token,
          crashes, historyVars>>

TypeOK ==
    /\ kind \in Kind /\ persisting \in BOOLEAN
    /\ sinceSweep \in 0..Cadence /\ fraction \in Fractions
    /\ seen \in [Findings -> Ages \cup {NoAge}]
    /\ cooldown \in [Findings -> Ages \cup {NoAge}]
    /\ ladder \in Record
    /\ checkpoint \in Attempts \cup {NoCheckpoint}
    /\ pc \in {"idle", "ladder", "checkpoint", "dispatch"}
    /\ finding \in Findings
    /\ token \in {"unprobed", "found", "missing"}
    /\ crashes \in 0..MaxCrashes
    /\ served \in BOOLEAN /\ movedBack \in BOOLEAN
    /\ lastSent \in Attempts
    /\ sinceLoud \in Ages \cup {NoAge}

Init ==
    /\ kind \in Kinds /\ persisting = FALSE
    /\ sinceSweep = 0 /\ fraction = 0
    /\ seen = [f \in Findings |-> NoAge]
    /\ cooldown = [f \in Findings |-> NoAge]
    /\ ladder = Bootstrap(0)
    /\ checkpoint = NoCheckpoint
    /\ pc = "idle"
    /\ finding = FirstFinding
    /\ token = "unprobed"
    /\ crashes = 0
    /\ served = FALSE /\ lastSent = 0 /\ movedBack = FALSE /\ sinceLoud = NoAge

-----------------------------------------------------------------------------
(* The monitored system, and the router that hears of it.                  *)

Appear ==
    /\ ~persisting
    /\ persisting' = TRUE
    /\ served' = FALSE
    /\ UNCHANGED <<kind, clockVars, dedupVars, ladder, checkpoint, pc, finding, token, crashes,
                   lastSent, movedBack, sinceLoud>>

Resolve ==
    /\ persisting
    /\ persisting' = FALSE
    /\ UNCHANGED <<kind, clockVars, dedupVars, ladder, checkpoint, pc, finding, token, crashes,
                   historyVars>>

(* An operator whose name has an underscore is a slip: a version of the    *)
(* definition it is named after that the properties must tell apart.       *)

DedupWindow_AsLadder == Window
DedupWindow_AsDefault == DefaultDedup

\* dedup_window_for(event) or _DEFAULT_LADDER_WINDOW_SECONDS is Window either way;
\* a name that is not in the table keeps the deduplicator's own window.
DedupWindow == IF kind.recurring THEN Window ELSE DefaultDedup

InWindow(age) == age # NoAge /\ age <= DedupWindow
IsDuplicateAlert(f) ==
    \/ kind.recurring /\ cooldown[f] # NoAge /\ cooldown[f] < DedupWindow
    \/ InWindow(seen[f])

\* What a sweep may bring of the condition.  Messages come late and in any order,
\* and the newest attempt is not always resolvable, so any attempt may follow any.
Found == IF kind.tupleShaped THEN Findings ELSE {FirstFinding}

\* A sweep finds the condition if it persists; the router lets the finding
\* through unless it is a duplicate.
Sweep ==
    /\ pc = "idle"
    /\ sinceSweep' = 0
    /\ \/ /\ persisting
          /\ \E f \in Found :
                /\ ~IsDuplicateAlert(f)
                /\ seen' = [seen EXCEPT ![f] = 0]
                /\ cooldown' = IF kind.recurring THEN [cooldown EXCEPT ![f] = 0] ELSE cooldown
                /\ pc' = "ladder"
                /\ finding' = f
       \/ /\ persisting => \E f \in Found : IsDuplicateAlert(f)
          /\ UNCHANGED <<dedupVars, pc, finding>>
    /\ UNCHANGED <<kind, persisting, fraction, ladder, checkpoint, token, crashes, historyVars>>

-----------------------------------------------------------------------------
(* The gate.                                                               *)

\* The next thing to do with the finding in hand; "idle" is to drop it.
GoesTo(step) == pc' = step /\ finding' = IF step = "idle" THEN FirstFinding ELSE finding

\* The record as record_occurrence reads it.
Stored == IF ladder.count = 0 THEN Bootstrap(fraction) ELSE ladder

\* record_occurrence: below the threshold, or open and quiet, it ends here.
Count ==
    /\ pc = "ladder"
    /\ ladder' = Advanced(Stored, fraction)
    /\ GoesTo(IF ~Escalates(Stored) THEN "idle"
              ELSE IF kind.tupleShaped THEN "checkpoint" ELSE "dispatch")
    /\ UNCHANGED <<kind, persisting, clockVars, dedupVars, checkpoint, token, crashes, historyVars>>

HasNewActivity_Inclusive ==
    /\ ~finding.backlog
    /\ checkpoint \in {NoCheckpoint, 0} \/ finding.attempted = 0 \/ finding.attempted >= checkpoint

\* check_dispatch_dedup_gcs.
HasNewActivity ==
    /\ ~finding.backlog
    /\ \/ checkpoint = NoCheckpoint
       \/ finding.attempted = 0
       \/ checkpoint = 0
       \/ finding.attempted > checkpoint

Checkpoint_Ahead ==
    /\ pc = "checkpoint"
    /\ checkpoint' = finding.attempted + 1
    /\ movedBack' = (movedBack \/ finding.attempted < lastSent)
    /\ GoesTo(IF HasNewActivity THEN "dispatch" ELSE "idle")
    /\ UNCHANGED <<kind, persisting, clockVars, dedupVars, ladder, token, crashes, served, lastSent,
                   sinceLoud>>

\* The checkpoint is written before the dispatch, whether or not there is one, and
\* whatever it held: an older attempt, or none, takes the place of a newer one.
Checkpoint ==
    /\ pc = "checkpoint"
    /\ checkpoint' = finding.attempted
    /\ movedBack' = (movedBack \/ finding.attempted < lastSent)
    /\ GoesTo(IF HasNewActivity THEN "dispatch" ELSE "idle")
    /\ UNCHANGED <<kind, persisting, clockVars, dedupVars, ladder, token, crashes, served, lastSent,
                   sinceLoud>>

\* _probe_gh_pat, cached for the life of the process, "missing" included.
Probed(secretAnswers) ==
    IF token # "unprobed" THEN token
    ELSE IF secretAnswers THEN "found" ELSE "missing"

Tells(accepted) == accepted /\ token' = "found"

\* dispatch_to_orchestrator; accepted says whether GitHub takes the POST, which
\* the process may never learn.
Dispatch(accepted) ==
    /\ pc = "dispatch"
    /\ \E secretAnswers \in {TRUE} \cup {~SecretMayFail} : token' = Probed(secretAnswers)
    /\ served' = (served \/ Tells(accepted))
    /\ IF Tells(accepted) /\ finding.attempted > 0
       THEN lastSent' = finding.attempted /\ movedBack' = FALSE
       ELSE UNCHANGED <<lastSent, movedBack>>
    /\ sinceLoud' = 0
    /\ GoesTo("idle")
    /\ UNCHANGED <<kind, persisting, clockVars, dedupVars, ladder, checkpoint, crashes>>

Sends == Dispatch(TRUE)
Refused == GithubMayFail /\ Dispatch(FALSE)

\* The process dies and is replaced: memory goes, what it was doing too.
Crash ==
    /\ crashes < MaxCrashes
    /\ crashes' = crashes + 1
    /\ seen' = [f \in Findings |-> NoAge]
    /\ token' = "unprobed"
    /\ GoesTo("idle")
    /\ UNCHANGED <<kind, persisting, clockVars, cooldown, ladder, checkpoint, historyVars>>

\* An entry of the deduplicator that has left its window is as good as none.
Kept(age) == IF age = NoAge \/ age >= DedupWindow THEN NoAge ELSE age + 1

\* The time between two sweeps is bounded, and so is the time a finding is in hand.
Tick ==
    /\ sinceSweep < IF pc = "idle" THEN Cadence ELSE CallTime
    /\ sinceSweep' = sinceSweep + 1
    /\ fraction' = NextFraction(fraction)
    /\ seen' = [f \in Findings |-> Kept(seen[f])]
    /\ cooldown' = [f \in Findings |-> Kept(cooldown[f])]
    /\ ladder' = IF ladder.count = 0 THEN ladder ELSE OneTickLater(ladder)
    /\ sinceLoud' = Aged(sinceLoud)
    /\ UNCHANGED <<kind, persisting, checkpoint, pc, finding, token, crashes, served, lastSent,
                   movedBack>>

Next ==
    \/ Appear \/ Resolve
    \/ Sweep \/ Count \/ Checkpoint \/ Sends \/ Refused
    \/ Crash
    \/ Tick

Spec == Init /\ [][Next]_vars

\* Time passes, the detector sweeps, the process goes on with what it has in hand,
\* and GitHub does not refuse every POST for ever.
FairSpec ==
    /\ Spec
    /\ WF_vars(Tick) /\ WF_vars(Sweep)
    /\ WF_vars(Count) /\ WF_vars(Checkpoint)
    /\ WF_vars(Sends \/ Refused) /\ SF_vars(Sends)

-----------------------------------------------------------------------------
(* Properties.                                                             *)

\* Three sweeps that pass the deduplicator fall into one window of the ladder.
QuickDetector == 2 * (DefaultDedup + Cadence) + CallTime + Second - 1 <= Window

\* A finding that persists is dispatched in the end: "the 3rd crossing
\* dispatches", and the gate is "never [to] fail toward silently swallowing a
\* FILE_ISSUE/PAGE_OPERATOR-tier finding forever" (escalation_ladder.py).  This
\* takes a detector that finds it three times in a window, however late within its
\* bounds each time, a name without a cooldown of its own (RecurringStaysQuiet), a
\* finding without a tuple, whose activity nobody asks for, and a process that has
\* found a token.
PersistentFindingDispatched ==
    QuickDetector /\ persisting /\ ~kind.tupleShaped /\ ~kind.recurring
        ~> served \/ ~persisting \/ token = "missing"

\* The other side of it: a VM-shaped finding of a name with a cooldown, told in
\* the same details each time, never comes to the threshold, however long the
\* condition persists.  Its cooldown is the ladder's window, so it is counted no
\* more than twice before the window is over, and counting starts again; neither
\* a crash nor a slow call makes it a third.
RecurringStaysQuiet == kind.recurring /\ ~kind.tupleShaped => ladder.state = "CLOSED"

\* GitHub is told twice of one attempt on a tuple only if in between a finding with
\* an older attempt, or with none, has put the checkpoint back, whatever was refused
\* or lost in between.
NoRedispatchWithoutActivity ==
    [][Sends /\ token' = "found" /\ finding.attempted > 0 =>
        finding.attempted > lastSent \/ movedBack]_vars

\* The loud signal about one identity is raised at most once per window, short of
\* the time the earlier call took from the sweep to the POST and of the fraction of
\* a second that _fmt drops, whatever crashes come between the ladder, the
\* checkpoint and the POST.
LoudOncePerWindow ==
    [][Sends \/ Refused => sinceLoud = NoAge \/ sinceLoud > Window - CallTime - Second]_vars

=============================================================================
