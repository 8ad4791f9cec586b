---------------------------- MODULE LiveService ----------------------------
(***************************************************************************)
(* The live process: the subscriber task that pulls Pub/Sub and routes,    *)
(* the executor thread that makes the blocking call, the coroutine that    *)
(* watches for shutdown, and the credentials reloader beside them.  Each   *)
(* run of the process is one revision; the messages outlive it.            *)
(*                                                                         *)
(* Pub/Sub is external: a pull takes some of what is waiting on one        *)
(* subscription and acknowledges it, for the code is given no handle to    *)
(* acknowledge with later.                                                 *)
(***************************************************************************)
EXTENDS PagingCredentials, Naturals, FiniteSets

CONSTANTS
  Message,
  Subscriptions,  \* how many are polled, in the order 1, 2, ...
  Topic,          \* the subscription each message arrives on
  Broken,         \* subscriptions whose every pull raises (never created)
  BatchMax,       \* most messages one pull returns
  ConfigHook,     \* the webhook is also in the environment
  MaxRuns         \* bounds the restarts

ASSUME LiveAssumption == /\ IsFiniteSet(Message)
                         /\ Subscriptions \in Nat \ {0}
                         /\ Topic \in [Message -> 1 .. Subscriptions]
                         /\ Broken \subseteq 1 .. Subscriptions
                         /\ BatchMax \in Nat \ {0}
                         /\ ConfigHook \in BOOLEAN
                         /\ MaxRuns \in Nat

VARIABLES
  at,        \* where each message is
  phase,     \* of the main coroutine: "off", "serving", "stopping"
  shutdown,  \* the shutdown handler's flag
  sub,       \* the subscriber task
  pos,       \* the subscription it polls
  puller,    \* the executor thread
  outcome,   \* what the last finished run answered
  runs       \* history: how often the process was started

vars == <<credVars, at, phase, shutdown, sub, pos, puller, outcome, runs>>

Places == {"unsent", "queue", "hand", "routed", "told", "refused", "silent", "lost"}

In(place) == {m \in Message : at[m] = place}

Moved(S, place) == [m \in Message |-> IF m \in S THEN place ELSE at[m]]

TypeOK == /\ CredTypeOK
          /\ at \in [Message -> Places]
          /\ phase \in {"off", "serving", "stopping"}
          /\ sub \in {"none", "starting", "idle", "polling", "routing", "dead", "cancelled"}
          /\ puller \in {"none", "pulling", "raised", "done"}
          /\ pos \in 1 .. Subscriptions
          /\ outcome \in {"none", "ok", "error", "killed"}
          /\ runs \in 0 .. MaxRuns
          /\ shutdown \in BOOLEAN

Init == /\ CredInit
        /\ at = [m \in Message |-> "unsent"]
        /\ phase = "off" /\ sub = "none" /\ puller = "none" /\ outcome = "none"
        /\ shutdown = FALSE
        /\ pos = 1 /\ runs = 0

Publish(m) ==
  /\ at[m] = "unsent"
  /\ at' = [at EXCEPT ![m] = "queue"]
  /\ UNCHANGED <<credVars, phase, shutdown, sub, pos, puller, outcome, runs>>

(***************************************************************************)
(* The main coroutine.                                                     *)
(***************************************************************************)
\* AlertHandler.run: start the reloader, then create the subscriber task.
Start ==
  /\ phase = "off" /\ puller = "none" /\ runs < MaxRuns
  /\ \E found \in Fetched : StartReloader(found)
  /\ phase' = "serving" /\ sub' = "starting" /\ shutdown' = FALSE
  /\ pos' = 1 /\ runs' = runs + 1 /\ outcome' = "none"
  /\ UNCHANGED <<at, puller>>

\* SIGTERM, or the end of run_duration_hours.
RequestShutdown ==
  /\ phase = "serving"
  /\ shutdown' = TRUE
  /\ UNCHANGED <<credVars, at, phase, sub, pos, puller, outcome, runs>>

\* The loop leaves at its next look, unless the event loop is busy routing:
\* it stops and cancels the task, and drops the batch the thread has brought
\* and the task has not resumed with.
Notice ==
  /\ phase = "serving" /\ sub # "routing"
  /\ shutdown \/ sub = "dead"
  /\ phase' = "stopping"
  /\ sub' = IF sub = "dead" THEN "dead" ELSE "cancelled"
  /\ at' = Moved(In("hand"), "lost")
  /\ puller' = IF puller = "pulling" THEN "pulling" ELSE "none"
  /\ UNCHANGED <<credVars, shutdown, pos, outcome, runs>>

\* An underscored operator is a wrong version of the definition it is named
\* after that the properties must tell apart.
Answer_Swallowed == "ok"      \* what the task raised suppressed with the rest

\* Awaiting the task raises what it died of; only its cancellation is
\* suppressed.
Answer == IF sub = "dead" THEN "error" ELSE "ok"

\* The reloader is stopped and run() returns; the interpreter waits for the
\* thread before the process is gone.
Return ==
  /\ phase = "stopping" /\ puller # "pulling"
  /\ StopReloader
  /\ phase' = "off" /\ outcome' = Answer /\ sub' = "none"
  /\ UNCHANGED <<at, shutdown, pos, puller, runs>>

Kill ==
  /\ phase # "off"
  /\ StopReloader
  /\ phase' = "off" /\ outcome' = "killed" /\ sub' = "none" /\ puller' = "none"
  /\ at' = Moved(In("hand"), "lost")
  /\ UNCHANGED <<shutdown, pos, runs>>

(***************************************************************************)
(* The subscriber task and its thread.                                     *)
(***************************************************************************)
\* run_until_stopped: event logging and the lifecycle event come before the
\* stream, outside its isolation.
BeginStream ==
  /\ sub = "starting"
  /\ sub' \in {"idle", "dead"}
  /\ UNCHANGED <<credVars, at, phase, shutdown, pos, puller, outcome, runs>>

Poll ==
  /\ sub = "idle"
  /\ sub' = "polling" /\ puller' = "pulling"
  /\ UNCHANGED <<credVars, at, phase, shutdown, pos, outcome, runs>>

AfterCall_Lives(end) == IF sub = "polling" THEN end ELSE "pulling"

\* The thread's one call is over; its end matters to a task that still waits.
AfterCall(end) == IF sub = "polling" THEN end ELSE "none"

\* What is pulled for a task already cancelled reaches nobody.
PullBatch(B) ==
  /\ puller = "pulling" /\ pos \notin Broken
  /\ B \subseteq {m \in In("queue") : Topic[m] = pos} /\ Cardinality(B) <= BatchMax
  /\ at' = Moved(B, IF sub = "polling" THEN "hand" ELSE "lost")
  /\ puller' = AfterCall("done")
  /\ UNCHANGED <<credVars, phase, shutdown, sub, pos, outcome, runs>>

Pull == \E B \in SUBSET Message : PullBatch(B)

PullFails ==
  /\ puller = "pulling"
  /\ puller' = AfterCall("raised")
  /\ UNCHANGED <<credVars, at, phase, shutdown, sub, pos, outcome, runs>>

NextPos_Over == pos + 1

NextPos == IF pos = Subscriptions THEN 1 ELSE pos + 1

AfterPull_Retry == IF puller = "raised" THEN pos ELSE NextPos

\* A failed pull skips this round of the subscription only.
AfterPull == NextPos

Resume ==
  /\ sub = "polling" /\ puller \in {"raised", "done"}
  /\ puller' = "none"
  /\ \/ /\ In("hand") = {}
        /\ sub' = "idle" /\ pos' = AfterPull
     \/ /\ In("hand") # {}
        /\ sub' = "routing" /\ UNCHANGED pos
  /\ UNCHANGED <<credVars, at, phase, shutdown, outcome, runs>>

\* The Slack webhook of the credentials, or the one in the environment.
HookKnown == Webhook \in creds \/ ConfigHook

\* _page_own_dispatch_failure: straight to Slack, if a webhook is known.
OwnFailurePage == IF HookKnown THEN {"told", "refused"} ELSE {"silent"}

\* The raise takes the rest of the batch with it.
AfterFailure_Batch(m, page) == [Moved(In("hand"), "lost") EXCEPT ![m] = page]

\* Per-message isolation: only the message that raised is skipped.
AfterFailure(m, page) == [at EXCEPT ![m] = page]

\* _route_one: dispatch, or skip and tell.  The batch is routed to its end
\* without the event loop turning.
Route(m) ==
  /\ sub = "routing" /\ at[m] = "hand"
  /\ \/ at' = [at EXCEPT ![m] = "routed"]
     \/ \E page \in OwnFailurePage : at' = AfterFailure(m, page)
  /\ IF \E n \in Message : at'[n] = "hand"
     THEN UNCHANGED <<sub, pos>>
     ELSE sub' = "idle" /\ pos' = NextPos
  /\ UNCHANGED <<credVars, phase, shutdown, puller, outcome, runs>>

Reload == Reloads /\ UNCHANGED <<at, phase, shutdown, sub, pos, puller, outcome, runs>>

Subscriber == BeginStream \/ Poll \/ Resume \/ \E m \in Message : Route(m)

Next == \/ Start \/ RequestShutdown \/ Notice \/ Return \/ Kill
        \/ Subscriber \/ Pull \/ PullFails \/ Reload
        \/ \E m \in Message : Publish(m)

Spec == Init /\ [][Next]_vars

\* The event loop and the threads go on with what they have in hand; Pub/Sub
\* hands out a waiting message sooner or later.
FairSpec ==
  /\ Spec
  /\ WF_vars(Subscriber) /\ WF_vars(Notice) /\ WF_vars(Return) /\ WF_vars(Pull \/ PullFails)
  /\ \A m \in Message : SF_vars(\E B \in SUBSET Message : m \in B /\ PullBatch(B))

(***************************************************************************)
(* Properties                                                              *)
(***************************************************************************)
Serving == phase = "serving" /\ ~shutdown

Fate == [m \in Message |-> CASE at[m] = "unsent" -> "unsent"
                             [] at[m] \in {"queue", "hand"} -> "waiting"
                             [] at[m] = "lost" -> "lost"
                             [] OTHER -> "handled"]

Delivery == INSTANCE AlertDelivery WITH fate <- Fate, serving <- Serving

\* A message is handled at most once, whoever asks, and lost only in a step
\* that ends the serving or after it (stream and run_subscriber_loop).
ImplementsDelivery == Delivery!Spec

\* A redeploy or a crash costs at most the one batch that was in hand or on
\* its way, however the cancellation and the thread's pull fall
\* (run_in_executor against subscriber_task.cancel).
LossIsOneBatchARun ==
  Cardinality(In("lost")) + Cardinality(In("hand")) <= BatchMax * runs

\* A process that stopped consuming without being asked to never answers ok
\* (run_subscriber_loop awaits the task it found dead).
DeathIsReported == outcome = "ok" => shutdown

\* Once a run has read the webhook, no failing read makes the subscriber swallow
\* a failure of its own for want of it: only a read that brought other secrets
\* and not this one does (_refresh replaces the dictionary as a whole).
FailuresAreTold ==
  [][\A m \in Message : (at[m] # "silent" /\ at'[m] = "silent") => ~brought]_vars

\* A published message is handled, unless the service is asked to stop or
\* dies, whatever happens to the other messages and subscriptions.
EventuallyHandled ==
  \A m \in Message :
    (Topic[m] \notin Broken /\ at[m] \in {"queue", "hand"})
      ~> (at[m] \notin {"queue", "hand"} \/ ~Serving \/ sub = "dead")
============================================================================
