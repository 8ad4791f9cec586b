----------------------------- MODULE AlertDedup -----------------------------
(***************************************************************************)
(* Alert deduplication: the in-process AlertDeduplicator (core/dedup.py)   *)
(* under the durable RecurringCooldownState                                *)
(* (core/recurring_dedup_persistence.py), as router._is_duplicate_alert    *)
(* layers them.  Each process is one Cloud Run revision of the service; a  *)
(* redeploy stops one and starts another, and the two may overlap.  They   *)
(* share one cooldown object in the bucket, which any call may fail to     *)
(* read or write.                                                          *)
(*                                                                         *)
(* A key is the identity of an alert (event name and identity details).    *)
(* The window of an alert depends on nothing but its identity: the static  *)
(* backlog flag that widens it is itself one of the hashed details.        *)
(***************************************************************************)
EXTENDS Integers

CONSTANTS
    Processes,          (* revisions of the service                         *)
    Keys,               (* alert identities                                 *)
    NoKey,              (* "no alert in flight"                             *)
    Recurring,          (* the keys with a cooldown of their own            *)
    Ttl,                (* the window of each key                           *)
    RevisionsOverlap,   (* may two revisions run at once?                   *)
    StorageMayFail,     (* may a bucket call fail?                          *)
    MaxTime             (* bound on the clock                               *)

ASSUME DedupAssumption ==
    /\ NoKey \notin Keys
    /\ Recurring \subseteq Keys
    /\ Ttl \in [Keys -> Nat]
    /\ RevisionsOverlap \in BOOLEAN
    /\ StorageMayFail \in BOOLEAN
    /\ MaxTime \in Nat

VARIABLES
    now,        (* the clock                                                *)
    up,         (* up[p]: the process runs                                  *)
    seen,       (* seen[p]: AlertDeduplicator._seen, the time of each entry *)
    loaded,     (* loaded[p]: RecurringCooldownState._loaded                *)
    cache,      (* cache[p]: RecurringCooldownState._last_emitted_at        *)
    durable,    (* alerting/state/cooldowns.json in the bucket              *)
    pc,         (* pc[p]: where the process is in the handling of an alert  *)
    handling,   (* handling[p]: the alert it is handling                    *)
    lastClaim,  (* history: when each key was last let through to delivery  *)
    lastSent,   (* history: when the last delivered alert was let through   *)
    calm        (* history: no bucket call has failed, no revisions overlapped *)

vars == <<now, up, seen, loaded, cache, durable, pc, handling,
          lastClaim, lastSent, calm>>

NoTime == -1
Time == Nat \cup {NoTime}
Stamps == [Keys -> Time]
NoStamps == [k \in Keys |-> NoTime]

TypeOK ==
    /\ now \in Nat
    /\ up \in [Processes -> BOOLEAN]
    /\ seen \in [Processes -> Stamps]
    /\ loaded \in [Processes -> BOOLEAN]
    /\ cache \in [Processes -> Stamps]
    /\ durable \in Stamps
    /\ pc \in [Processes -> {"idle", "reread", "write", "deliver"}]
    /\ handling \in [Processes -> Keys \cup {NoKey}]
    /\ \A p \in Processes : pc[p] # "idle" => handling[p] \in Keys
    /\ lastClaim \in Stamps
    /\ lastSent \in Stamps
    /\ calm \in BOOLEAN

Init ==
    /\ now = 0
    /\ up = [p \in Processes |-> FALSE]
    /\ seen = [p \in Processes |-> NoStamps]
    /\ loaded = [p \in Processes |-> FALSE]
    /\ cache = [p \in Processes |-> NoStamps]
    /\ durable = NoStamps
    /\ pc = [p \in Processes |-> "idle"]
    /\ handling = [p \in Processes |-> NoKey]
    /\ lastClaim = NoStamps
    /\ lastSent = NoStamps
    /\ calm = TRUE

-----------------------------------------------------------------------------
(* What the two layers answer.                                             *)

\* Does a bucket call of the step fail?
Failures == {FALSE, StorageMayFail}
Notes(fails) == calm' = (calm /\ ~fails)

(* An operator whose name has an underscore is a slip: a version of the    *)
(* definition it is named after that the properties must tell apart.       *)

\* What read_cooldown_state returns: the object, or nothing when the read fails,
\* for it swallows every error.
ObjectRead(fails) == IF fails THEN NoStamps ELSE durable

CooldownView_Unread(p, k, fails) == cache[p]

\* The timestamps should_suppress looks at: those loaded once per process,
\* and nothing but the untouched cache for a key without a cooldown.
CooldownView(p, k, fails) ==
    IF k \in Recurring /\ ~loaded[p] THEN ObjectRead(fails) ELSE cache[p]

ShouldSuppress_ForEver(view, k) == k \in Recurring /\ view[k] # NoTime

ShouldSuppress(view, k) ==
    /\ k \in Recurring
    /\ view[k] # NoTime
    /\ now - view[k] < Ttl[k]

Unexpired_Sliding(p) ==
    [k \in Keys |->
        IF seen[p][k] = NoTime \/ now - seen[p][k] > Ttl[k] THEN NoTime ELSE now]

\* _evict_expired: what is left of the entries of p when it runs.
Unexpired(p) ==
    [k \in Keys |->
        IF seen[p][k] # NoTime /\ now - seen[p][k] > Ttl[k]
        THEN NoTime
        ELSE seen[p][k]]

IsDuplicate(p, k) == Unexpired(p)[k] # NoTime

\* merged = the durable stamps, overridden by every stamp of the cache.
Merged(raw, own) == [k \in Keys |-> IF own[k] # NoTime THEN own[k] ELSE raw[k]]

-----------------------------------------------------------------------------
(* Handling one alert.                                                     *)

\* _ensure_loaded, first thing for a key with a cooldown: view is what the
\* cache holds from then on.
Load(p, k, view) ==
    /\ loaded' = [loaded EXCEPT ![p] = @ \/ k \in Recurring]
    /\ cache' = [cache EXCEPT ![p] = view]

\* The durable cooldown suppresses the alert; the in-process layer is not asked.
SuppressedByCooldown(p, k) ==
    /\ up[p] /\ pc[p] = "idle"
    /\ \E fails \in Failures :
        LET view == CooldownView(p, k, fails)
        IN  ShouldSuppress(view, k) /\ Load(p, k, view) /\ Notes(fails)
    /\ UNCHANGED <<now, up, seen, durable, pc, handling, lastClaim, lastSent>>

\* The in-process layer suppresses the alert.
SuppressedInProcess(p, k) ==
    /\ up[p] /\ pc[p] = "idle"
    /\ \E fails \in Failures :
        LET view == CooldownView(p, k, fails)
        IN  ~ShouldSuppress(view, k) /\ Load(p, k, view) /\ Notes(fails)
    /\ IsDuplicate(p, k)
    /\ seen' = [seen EXCEPT ![p] = Unexpired(p)]
    /\ UNCHANGED <<now, up, durable, pc, handling, lastClaim, lastSent>>

\* The alert is new.  Its window opens at once; record() stamps the cache of a
\* key with a cooldown and goes on to persist it.
Claim(p, k) ==
    /\ up[p] /\ pc[p] = "idle"
    /\ \E fails \in Failures :
        LET view == CooldownView(p, k, fails)
        IN  /\ ~ShouldSuppress(view, k)
            /\ Load(p, k, IF k \in Recurring THEN [view EXCEPT ![k] = now] ELSE view)
            /\ Notes(fails)
    /\ ~IsDuplicate(p, k)
    /\ seen' = [seen EXCEPT ![p] = [Unexpired(p) EXCEPT ![k] = now]]
    /\ pc' = [pc EXCEPT ![p] = IF k \in Recurring THEN "reread" ELSE "deliver"]
    /\ handling' = [handling EXCEPT ![p] = k]
    /\ lastClaim' = [lastClaim EXCEPT ![k] = now]
    /\ UNCHANGED <<now, up, durable, lastSent>>

\* record() reads the object again and merges it into the cache ...
Reread(p) ==
    /\ up[p] /\ pc[p] = "reread"
    /\ \E fails \in Failures :
        /\ cache' = [cache EXCEPT ![p] = Merged(ObjectRead(fails), cache[p])]
        /\ Notes(fails)
    /\ pc' = [pc EXCEPT ![p] = "write"]
    /\ UNCHANGED <<now, up, seen, loaded, durable, handling, lastClaim, lastSent>>

\* ... unless the store cannot even be built, in which case it gives up, ...
StoreUnavailable(p) ==
    /\ StorageMayFail
    /\ up[p] /\ pc[p] = "reread"
    /\ pc' = [pc EXCEPT ![p] = "deliver"]
    /\ Notes(TRUE)
    /\ UNCHANGED <<now, up, seen, loaded, cache, durable, handling, lastClaim, lastSent>>

\* ... and writes the whole cache back.  A failed write is only logged.
Write(p) ==
    /\ up[p] /\ pc[p] = "write"
    /\ \E fails \in Failures :
        /\ durable' = IF fails THEN durable ELSE cache[p]
        /\ Notes(fails)
    /\ pc' = [pc EXCEPT ![p] = "deliver"]
    /\ UNCHANGED <<now, up, seen, loaded, cache, handling, lastClaim, lastSent>>

\* The caller sends the alert, or every channel refuses it; nothing is undone.
Deliver(p) ==
    /\ up[p] /\ pc[p] = "deliver"
    /\ \/ lastSent' = [lastSent EXCEPT ![handling[p]] = seen[p][handling[p]]]
       \/ UNCHANGED lastSent
    /\ pc' = [pc EXCEPT ![p] = "idle"]
    /\ handling' = [handling EXCEPT ![p] = NoKey]
    /\ UNCHANGED <<now, up, seen, loaded, cache, durable, lastClaim, calm>>

-----------------------------------------------------------------------------
(* Revisions come and go; time passes.                                     *)

\* A new revision boots; its memory is empty.
Start(p) ==
    /\ ~up[p]
    /\ RevisionsOverlap \/ \A q \in Processes : ~up[q]
    /\ up' = [up EXCEPT ![p] = TRUE]
    /\ calm' = (calm /\ \A q \in Processes : ~up[q])
    /\ UNCHANGED <<now, seen, loaded, cache, durable, pc, handling, lastClaim, lastSent>>

Stop_KeepsPlace(p) ==
    /\ up[p]
    /\ up' = [up EXCEPT ![p] = FALSE]
    /\ seen' = [seen EXCEPT ![p] = NoStamps]
    /\ loaded' = [loaded EXCEPT ![p] = FALSE]
    /\ cache' = [cache EXCEPT ![p] = NoStamps]
    /\ handling' = [handling EXCEPT ![p] = NoKey]
    /\ UNCHANGED <<now, durable, pc, lastClaim, lastSent, calm>>

\* A revision is torn down or crashes, between any two of its steps, and
\* everything it held in memory is gone.
Stop(p) ==
    /\ up[p]
    /\ up' = [up EXCEPT ![p] = FALSE]
    /\ seen' = [seen EXCEPT ![p] = NoStamps]
    /\ loaded' = [loaded EXCEPT ![p] = FALSE]
    /\ cache' = [cache EXCEPT ![p] = NoStamps]
    /\ pc' = [pc EXCEPT ![p] = "idle"]
    /\ handling' = [handling EXCEPT ![p] = NoKey]
    /\ UNCHANGED <<now, durable, lastClaim, lastSent, calm>>

Tick ==
    /\ now < MaxTime
    /\ now' = now + 1
    /\ UNCHANGED <<up, seen, loaded, cache, durable, pc, handling, lastClaim, lastSent, calm>>

Arrive(p, k) ==
    \/ SuppressedByCooldown(p, k)
    \/ SuppressedInProcess(p, k)
    \/ Claim(p, k)

Next ==
    \/ \E p \in Processes :
        \/ \E k \in Keys : Arrive(p, k)
        \/ Reread(p)
        \/ StoreUnavailable(p)
        \/ Write(p)
        \/ Deliver(p)
        \/ Start(p)
        \/ Stop(p)
    \/ Tick

Spec == Init /\ [][Next]_vars

-----------------------------------------------------------------------------
(* What deduplication promises.                                            *)

\* An alert that arrives now may be swallowed.
MaySuppress(p, k) ==
    \/ \E fails \in Failures : ShouldSuppress(CooldownView(p, k, fails), k)
    \/ IsDuplicate(p, k)

\* An alert is swallowed only while some process let the same identity through
\* within its window: whatever the failed reads and writes, overlapping
\* revisions and crashes, a stale or lost stamp never silences a finding for
\* longer than one window, so a condition that persists is raised again
\* ("fail OPEN", RecurringCooldownState).
SuppressedOnlyInWindow ==
    \A p \in Processes, k \in Keys :
        up[p] /\ pc[p] = "idle" /\ MaySuppress(p, k) =>
            /\ lastClaim[k] # NoTime
            /\ now - lastClaim[k] <= Ttl[k]

\* Once an alert with a cooldown has been delivered, no process lets the same
\* identity through again inside the cooldown, not even one that has just
\* booted: the reason RecurringCooldownState is durable.  (It holds until a
\* bucket call fails or two revisions overlap.)
CooldownSurvivesRedeploy ==
    [][\A p \in Processes, k \in Recurring :
        Claim(p, k) /\ calm' =>
            lastSent[k] = NoTime \/ now - lastSent[k] >= Ttl[k]]_vars

\* Every stamp anywhere is the time of a past claim, or older: the induction
\* SuppressedOnlyInWindow rests on.
StampsAreClaims ==
    /\ \A k \in Keys : lastClaim[k] <= now
    /\ \A k \in Keys : durable[k] <= lastClaim[k]
    /\ \A p \in Processes, k \in Keys :
        seen[p][k] <= lastClaim[k] /\ cache[p][k] <= lastClaim[k]

=============================================================================
