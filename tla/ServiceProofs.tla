---------------------------- MODULE ServiceProofs ----------------------------
(***************************************************************************)
(* Proofs about what the live service does with messages.                  *)
(*                                                                         *)
(* LiveService, for any messages, subscriptions, batch size and number of  *)
(* runs: it implements AlertDelivery, its loss is bounded by one batch a   *)
(* run, a death is reported, and a failure is told of once the webhook has *)
(* been read, until a read brings other secrets without it.                *)
(*                                                                         *)
(* TypedEvents, for any traffic, any windows and any contract of incident  *)
(* states: its state has its type, and what was handled without a failure  *)
(* has halted what it must.                                                *)
(***************************************************************************)
EXTENDS LiveService, TypedEvents, FiniteSetTheorems, TLAPS

USE CredAssumption, LiveAssumption

\* The subscriber goes round the subscriptions.
LEMMA PosGoesRound == pos \in 1 .. Subscriptions => NextPos \in 1 .. Subscriptions
BY DEF NextPos

\* Whether something is in a set is a truth value.
LEMMA BooleanOf ==
  /\ \A b, x, S : b = (x \in S) => b \in BOOLEAN
  /\ \A b, c, x, S : c \in BOOLEAN /\ b = (IF S = {} THEN c ELSE x \in S) => b \in BOOLEAN
<1>1. ASSUME NEW x, NEW S PROVE (x \in S) \in BOOLEAN
  OBVIOUS
<1>2. ASSUME NEW b, NEW x, NEW S, b = (x \in S) PROVE b \in BOOLEAN
  BY <1>1, <1>2, Zenon
<1>3. ASSUME NEW b, NEW c \in BOOLEAN, NEW x, NEW S, b = IF S = {} THEN c ELSE x \in S
      PROVE  b \in BOOLEAN
  <2>1. CASE S = {}
    BY <1>3, <2>1, Zenon
  <2>2. CASE S # {}
    BY <1>1, <1>3, <2>2, Zenon
  <2> QED
    BY <2>1, <2>2
<1> QED
  BY <1>2, <1>3

\* The state has its type.
THEOREM TypeCorrect == Spec => []TypeOK
<1>1. ASSUME Init PROVE TypeOK
  <2>1. at \in [Message -> Places] /\ pos \in 1 .. Subscriptions /\ runs \in 0 .. MaxRuns
    BY <1>1 DEF Init, Places
  <2>2. CredTypeOK /\ shutdown \in BOOLEAN
    BY <1>1, Zenon DEF Init, CredInit, CredTypeOK
  <2> QED
    BY <1>1, <2>1, <2>2 DEF Init, TypeOK
<1>2. TypeOK /\ [Next]_vars => TypeOK'
  <2> SUFFICES ASSUME TypeOK, [Next]_vars
               PROVE  TypeOK'
    OBVIOUS
  <2> USE DEF TypeOK, CredTypeOK
  <2>1. CASE Start
    <3>1. PICK found \in Fetched : StartReloader(found)
      BY <2>1 DEF Start
    <3>2. CredTypeOK'
      <4>1. creds' \subseteq Secrets /\ poller' \in {"none", "waiting", "fetching"}
        BY <3>1 DEF StartReloader, Fetched
      <4>2. brought' \in BOOLEAN
        BY <3>1, BooleanOf DEF StartReloader
      <4>3. CredTypeOK'
        BY <4>1, <4>2
      <4> QED
        BY <4>3
    <3>3. /\ at' \in [Message -> Places] /\ puller' \in {"none", "pulling", "raised", "done"}
          /\ runs' \in 0 .. MaxRuns /\ pos' \in 1 .. Subscriptions
      BY <2>1 DEF Start
    <3> QED
      BY <2>1, <3>2, <3>3, Zenon DEF Start
  <2>2. CASE RequestShutdown
    BY <2>2 DEF RequestShutdown, credVars
  <2>3. CASE Notice
    BY <2>3 DEF Notice, credVars, Moved, In, Places
  <2>4. CASE Return
    BY <2>4 DEF Return, StopReloader, Answer
  <2>5. CASE Kill
    BY <2>5 DEF Kill, StopReloader, Moved, In, Places
  <2>6. CASE BeginStream
    BY <2>6 DEF BeginStream, credVars
  <2>7. CASE Poll
    BY <2>7 DEF Poll, credVars
  <2>8. CASE Resume
    BY <2>8, PosGoesRound DEF Resume, AfterPull, credVars
  <2>9. ASSUME NEW m \in Message, Route(m) PROVE TypeOK'
    <3>1. at' \in [Message -> Places]
      BY <2>9 DEF Route, OwnFailurePage, AfterFailure, Places
    <3>2. sub' \in {"routing", "idle"} /\ pos' \in 1 .. Subscriptions
      BY <2>9, PosGoesRound DEF Route
    <3> QED
      BY <2>9, <3>1, <3>2 DEF Route, credVars
  <2>10. ASSUME NEW B \in SUBSET Message, PullBatch(B) PROVE TypeOK'
    BY <2>10 DEF PullBatch, AfterCall, Moved, Places, credVars
  <2>11. CASE PullFails
    BY <2>11 DEF PullFails, AfterCall, credVars
  <2>12. CASE Reload
    <3>1. CASE Wake
      BY <2>12, <3>1 DEF Reload, Wake
    <3>2. CASE Refresh
      <4>1. PICK found \in Fetched :
              /\ creds' = Kept(found)
              /\ brought' = IF found = {} THEN brought ELSE Webhook \in found
        BY <3>2 DEF Refresh
      <4>2. creds' \subseteq Secrets /\ poller' = "waiting"
        BY <3>2, <4>1 DEF Refresh, Kept, Fetched
      <4>3. brought' \in BOOLEAN
        BY <4>1, BooleanOf
      <4> QED
        BY <2>12, <4>2, <4>3 DEF Reload
    <3> QED
      BY <2>12, <3>1, <3>2 DEF Reload, Reloads
  <2>13. ASSUME NEW m \in Message, Publish(m) PROVE TypeOK'
    BY <2>13 DEF Publish, Places, credVars
  <2>14. CASE UNCHANGED vars
    BY <2>14 DEF vars, credVars
  <2> QED
    BY <2>1, <2>2, <2>3, <2>4, <2>5, <2>6, <2>7, <2>8, <2>9, <2>10, <2>11, <2>12, <2>13, <2>14
       DEF Next, Subscriber, Pull
<1> QED
  BY <1>1, <1>2, PTL DEF Spec

(***************************************************************************)
(* A death is reported.                                                    *)
(***************************************************************************)
\* The loop stops for a dead task or on request, and cancels a task only in
\* the second case.
Asked == /\ phase = "off" => sub = "none"
         /\ phase = "stopping" => sub \in {"dead", "cancelled"}
         /\ phase = "stopping" /\ sub = "cancelled" => shutdown

ReportInv == Asked /\ DeathIsReported

\* No step answers ok for a run nobody asked to stop.
LEMMA ReportStep == ReportInv /\ [Next]_vars => ReportInv'
<1> SUFFICES ASSUME ReportInv, [Next]_vars
             PROVE  ReportInv'
  OBVIOUS
<1> USE DEF ReportInv, Asked, DeathIsReported
<1>1. CASE Start
  BY <1>1 DEF Start
<1>2. CASE RequestShutdown
  BY <1>2 DEF RequestShutdown
<1>3. CASE Notice
  BY <1>3 DEF Notice
<1>4. CASE Return
  BY <1>4 DEF Return, Answer
<1>5. CASE Kill
  BY <1>5 DEF Kill
<1>6. CASE Subscriber
  BY <1>6 DEF Subscriber, BeginStream, Poll, Resume, Route
<1>7. ASSUME UNCHANGED <<phase, shutdown, sub, outcome>> PROVE ReportInv'
  BY <1>7
<1>8. Pull \/ PullFails \/ Reload \/ (\E m \in Message : Publish(m)) \/ UNCHANGED vars
        => UNCHANGED <<phase, shutdown, sub, outcome>>
  BY DEF Pull, PullBatch, PullFails, Reload, Publish, vars
<1> QED
  BY <1>1, <1>2, <1>3, <1>4, <1>5, <1>6, <1>7, <1>8 DEF Next

\* A process that stopped consuming without being asked to never answers ok.
THEOREM DeathReported == Spec => []DeathIsReported
<1>1. Init => ReportInv
  BY DEF Init, ReportInv, Asked, DeathIsReported
<1>2. ReportInv => DeathIsReported
  BY DEF ReportInv
<1> QED
  BY <1>1, <1>2, ReportStep, PTL DEF Spec

(***************************************************************************)
(* Failures are told of.                                                   *)
(***************************************************************************)
\* What the last read that brought anything brought is kept.
CredsKept == brought => Webhook \in creds

\* A read that brings nothing loses nothing.
LEMMA CredsKeptStep == CredsKept /\ [Next]_vars => CredsKept'
<1> SUFFICES ASSUME CredsKept, [Next]_vars
             PROVE  CredsKept'
  OBVIOUS
<1> USE DEF CredsKept
<1>1. CASE Start
  BY <1>1 DEF Start, StartReloader
<1>2. CASE Return
  BY <1>2 DEF Return, StopReloader
<1>3. CASE Kill
  BY <1>3 DEF Kill, StopReloader
<1>4. CASE Reload
  BY <1>4 DEF Reload, Reloads, Wake, Refresh, Kept
<1>5. ASSUME UNCHANGED <<creds, brought>> PROVE CredsKept'
  BY <1>5
<1>6. RequestShutdown \/ Notice \/ Subscriber \/ Pull \/ PullFails
        \/ (\E m \in Message : Publish(m)) \/ UNCHANGED vars => UNCHANGED <<creds, brought>>
  BY DEF RequestShutdown, Notice, Subscriber, BeginStream, Poll, Resume, Route, Pull, PullBatch,
         PullFails, Publish, vars, credVars
<1> QED
  BY <1>1, <1>2, <1>3, <1>4, <1>5, <1>6 DEF Next

\* Only a routing makes a message silent, and only without a webhook.
LEMMA SilentStep ==
  ASSUME TypeOK, CredsKept, [Next]_vars, NEW m \in Message, at[m] # "silent", at'[m] = "silent"
  PROVE  ~brought
<1>1. ASSUME NEW n \in Message, Route(n) PROVE ~brought
  <2>1. CASE HookKnown
    BY <1>1, <2>1 DEF Route, OwnFailurePage, AfterFailure, TypeOK
  <2>2. CASE ~HookKnown
    BY <2>2 DEF HookKnown, CredsKept
  <2> QED
    BY <2>1, <2>2
<1>2. ~Notice /\ ~Kill /\ ~Pull
  BY DEF Notice, Kill, Pull, PullBatch, Moved, TypeOK
<1>3. \A n \in Message : ~Publish(n)
  BY DEF Publish, TypeOK
<1>4. at' # at
  OBVIOUS
<1>5. ~(Start \/ RequestShutdown \/ Return \/ BeginStream \/ Poll \/ Resume \/ PullFails \/ Reload
         \/ UNCHANGED vars)
  BY <1>4 DEF Start, RequestShutdown, Return, BeginStream, Poll, Resume, PullFails, Reload, vars
<1> QED
  BY <1>1, <1>2, <1>3, <1>5 DEF Next, Subscriber

\* Once a run has read the webhook, no failing read (_refresh) makes it swallow a
\* failure of its own; only one that brought other secrets without it does.
THEOREM Told == Spec => FailuresAreTold
<1>1. Init => CredsKept
  BY Zenon DEF Init, CredInit, CredsKept
<1>2. TypeOK /\ CredsKept /\ [Next]_vars
        => [\A m \in Message : (at[m] # "silent" /\ at'[m] = "silent") => ~brought]_vars
  <2> SUFFICES ASSUME TypeOK, CredsKept, [Next]_vars,
                      NEW m \in Message, at[m] # "silent", at'[m] = "silent"
               PROVE  ~brought
    OBVIOUS
  <2> QED
    BY SilentStep
<1> QED
  BY <1>1, <1>2, TypeCorrect, CredsKeptStep, PTL DEF Spec, FailuresAreTold

(***************************************************************************)
(* The refinement.                                                         *)
(***************************************************************************)
\* While the service serves, a thread is out only for a task that waits.
Awaited == phase = "serving" /\ puller # "none" => sub = "polling"

\* No step leaves a thread behind in a serving process.
LEMMA AwaitedStep == Awaited /\ [Next]_vars => Awaited'
<1> SUFFICES ASSUME Awaited, [Next]_vars
             PROVE  Awaited'
  OBVIOUS
<1> USE DEF Awaited
<1>1. CASE Start
  BY <1>1 DEF Start
<1>2. CASE Notice \/ Return \/ Kill
  BY <1>2 DEF Notice, Return, Kill
<1>3. CASE Subscriber
  BY <1>3 DEF Subscriber, BeginStream, Poll, Resume, Route
<1>4. CASE Pull \/ PullFails
  BY <1>4 DEF Pull, PullBatch, PullFails
<1>5. ASSUME UNCHANGED <<phase, puller, sub>> PROVE Awaited'
  BY <1>5
<1>6. RequestShutdown \/ Reload \/ (\E m \in Message : Publish(m)) \/ UNCHANGED vars
        => UNCHANGED <<phase, puller, sub>>
  BY DEF RequestShutdown, Reload, Publish, vars
<1> QED
  BY <1>1, <1>2, <1>3, <1>4, <1>5, <1>6 DEF Next

\* What a message has come to is its place and nothing else.
LEMMA FateOf ==
  ASSUME TypeOK
  PROVE  \A m \in Message : /\ at[m] = "unsent" => Fate[m] = "unsent"
                            /\ at[m] \in {"queue", "hand"} => Fate[m] = "waiting"
                            /\ at[m] = "lost" => Fate[m] = "lost"
                            /\ at[m] \in {"routed", "told", "refused", "silent"} => Fate[m] = "handled"
BY DEF Fate, TypeOK, Places

\* Messages that were waiting and are lost in the last step of a service are
\* what the abstract service loses when it stops.
LEMMA LosingStops ==
  ASSUME TypeOK, TypeOK', NEW B \in SUBSET Message, \A m \in B : at[m] \in {"queue", "hand"},
         at' = Moved(B, "lost"), ~Serving'
  PROVE  Delivery!Stop
<1>1. B \in SUBSET Delivery!Waiting
  BY FateOf DEF Delivery!Waiting
<1>2. Fate' = Delivery!Settled(B)
  <2>1. \A m \in Message : Fate[m]' = IF m \in B THEN "lost" ELSE Fate[m]
    BY DEF Fate, Moved
  <2> QED
    BY <2>1 DEF Fate, Delivery!Settled
<1> QED
  BY <1>1, <1>2 DEF Delivery!Stop

\* A step that moves no message maps to the beginning or the end of a
\* service, or to nothing.
LEMMA IdleStep ==
  ASSUME TypeOK, TypeOK', UNCHANGED at
  PROVE  [Delivery!Next]_(Delivery!vars)
<1>1. Fate' = Fate
  BY DEF Fate
<1>2. Serving \in BOOLEAN /\ Serving' \in BOOLEAN
  BY DEF Serving
<1>3. CASE Serving' = Serving
  BY <1>1, <1>3 DEF Delivery!vars
<1>4. CASE ~Serving /\ Serving'
  BY <1>1, <1>4 DEF Delivery!Begin, Delivery!Next
<1>5. CASE ~Serving'
  <2>1. at' = Moved({}, "lost")
    BY DEF Moved, TypeOK
  <2> QED
    BY <2>1, <1>5, LosingStops DEF Delivery!Next
<1> QED
  BY <1>2, <1>3, <1>4, <1>5

\* Every step of the service is a step of the delivery, or none.
LEMMA RefinementStep ==
  ASSUME TypeOK, TypeOK', Awaited, [Next]_vars
  PROVE  [Delivery!Next]_(Delivery!vars)
<1>1. CASE Notice \/ Kill
  <2>1. In("hand") \in SUBSET Message /\ (\A m \in In("hand") : at[m] \in {"queue", "hand"})
    BY DEF In
  <2>2. at' = Moved(In("hand"), "lost") /\ ~Serving'
    BY <1>1 DEF Notice, Kill, Serving
  <2> QED
    BY <2>1, <2>2, LosingStops DEF Delivery!Next
<1>2. ASSUME NEW B \in SUBSET Message, PullBatch(B) PROVE [Delivery!Next]_(Delivery!vars)
  <2>1. \A m \in B : at[m] = "queue"
    BY <1>2 DEF PullBatch, In
  <2>2. CASE sub = "polling"
    <3>1. \A m \in Message : Fate[m]' = Fate[m]
      BY <1>2, <2>1, <2>2 DEF PullBatch, Moved, Fate
    <3>2. Fate' = Fate
      BY <3>1 DEF Fate
    <3> QED
      BY <1>2, <3>2 DEF PullBatch, Serving, Delivery!vars
  <2>3. CASE sub # "polling"
    <3>1. at' = Moved(B, "lost")
      BY <1>2, <2>3 DEF PullBatch
    <3>2. ~Serving'
      BY <1>2, <2>3 DEF PullBatch, Awaited, Serving
    <3> QED
      BY <2>1, <3>1, <3>2, LosingStops DEF Delivery!Next
  <2> QED
    BY <2>2, <2>3
<1>3. ASSUME NEW m \in Message, Route(m) PROVE [Delivery!Next]_(Delivery!vars)
  <2>1. PICK place \in {"routed", "told", "refused", "silent"} : at' = [at EXCEPT ![m] = place]
    BY <1>3 DEF Route, OwnFailurePage, AfterFailure
  <2>2. Fate[m] = "waiting"
    BY <1>3, FateOf DEF Route
  <2>3. \A n \in Message : Fate[n]' = IF n = m THEN "handled" ELSE Fate[n]
    BY <2>1 DEF Fate, TypeOK
  <2>4. Fate' = [Fate EXCEPT ![m] = "handled"]
    BY <2>3 DEF Fate
  <2>5. Serving' = Serving
    BY <1>3 DEF Route, Serving
  <2> QED
    BY <2>2, <2>4, <2>5 DEF Delivery!Handle, Delivery!Next
<1>4. ASSUME NEW m \in Message, Publish(m) PROVE [Delivery!Next]_(Delivery!vars)
  <2>1. Fate[m] = "unsent"
    BY <1>4, FateOf DEF Publish
  <2>2. \A n \in Message : Fate[n]' = IF n = m THEN "waiting" ELSE Fate[n]
    BY <1>4 DEF Publish, Fate, TypeOK
  <2>3. Fate' = [Fate EXCEPT ![m] = "waiting"]
    BY <2>2 DEF Fate
  <2>4. Serving' = Serving
    BY <1>4 DEF Publish, Serving
  <2> QED
    BY <2>1, <2>3, <2>4 DEF Delivery!Send, Delivery!Next
<1>5. Start \/ RequestShutdown \/ Return \/ BeginStream \/ Poll \/ Resume \/ PullFails \/ Reload
        \/ UNCHANGED vars => UNCHANGED at
  BY DEF Start, RequestShutdown, Return, BeginStream, Poll, Resume, PullFails, Reload, vars
<1> QED
  BY <1>1, <1>2, <1>3, <1>4, <1>5, IdleStep DEF Next, Subscriber, Pull

\* The service implements the delivery it promises.
THEOREM Refinement == Spec => ImplementsDelivery
<1>1. Init => Delivery!Init
  <2> SUFFICES ASSUME Init PROVE Delivery!Init
    OBVIOUS
  <2>1. \A m \in Message : Fate[m] = "unsent"
    BY DEF Init, Fate
  <2>2. Fate = [m \in Message |-> "unsent"]
    BY <2>1 DEF Fate
  <2>3. Serving = FALSE
    BY DEF Init, Serving
  <2> QED
    BY <2>2, <2>3 DEF Delivery!Init
<1>2. Init => Awaited
  BY DEF Init, Awaited
<1>3. TypeOK /\ TypeOK' /\ Awaited /\ [Next]_vars => [Delivery!Next]_(Delivery!vars)
  BY RefinementStep
<1> QED
  BY <1>1, <1>2, <1>3, TypeCorrect, AwaitedStep, PTL DEF Spec, ImplementsDelivery, Delivery!Spec

(***************************************************************************)
(* The bound on the loss.  A run may lose one batch; while it serves, or   *)
(* its thread is out, that batch is still to come.                         *)
(***************************************************************************)
Lost == Cardinality(In("lost"))
Held == Cardinality(In("hand"))

\* A batch is in hand of a serving process only, whose task waits for it or
\* routes it and whose thread is not out.
Holding ==
  In("hand") # {} => phase = "serving" /\ sub \in {"polling", "routing"} /\ puller # "pulling"

\* A process that is over has no thread out.
Ended == phase = "off" => puller # "pulling"

\* The loss of this run is still to come.
Spare == phase = "serving" \/ puller = "pulling" => Lost + BatchMax <= BatchMax * runs

LossInv == Holding /\ Ended /\ Spare /\ Held <= BatchMax /\ LossIsOneBatchARun

\* The messages anywhere are finitely many.
LEMMA Finite ==
  ASSUME NEW place PROVE IsFiniteSet(In(place)) /\ Cardinality(In(place)) \in Nat
<1>1. In(place) \in SUBSET Message
  BY DEF In
<1> QED
  BY <1>1, FS_Subset, FS_CardinalityType

\* The same in the next state.
LEMMA FiniteAfter ==
  ASSUME NEW place PROVE IsFiniteSet(In(place)') /\ Cardinality(In(place)') \in Nat
<1>1. In(place)' \in SUBSET Message
  BY DEF In
<1> QED
  BY <1>1, FS_Subset, FS_CardinalityType

\* Joining two sets adds no more than their sizes.
LEMMA JoinBound ==
  ASSUME NEW S, NEW T, IsFiniteSet(S), IsFiniteSet(T)
  PROVE  Cardinality(S \cup T) <= Cardinality(S) + Cardinality(T)
<1>1. Cardinality(S \cup T) = Cardinality(S) + Cardinality(T) - Cardinality(S \cap T)
  BY FS_Union
<1>2. Cardinality(S \cap T) \in Nat
  BY FS_Intersection, FS_CardinalityType
<1>3. Cardinality(S) \in Nat /\ Cardinality(T) \in Nat
  BY FS_CardinalityType
<1> QED
  BY <1>1, <1>2, <1>3

\* Another run allows for another batch.
LEMMA OneMoreRun ==
  ASSUME NEW r \in Nat PROVE BatchMax * r \in Nat /\ BatchMax * (r + 1) = BatchMax * r + BatchMax
OBVIOUS

\* A stop drops what is in hand, and nothing that was not counted.
LEMMA DroppedHand ==
  ASSUME TypeOK, LossInv, at' = Moved(In("hand"), "lost")
  PROVE  In("hand")' = {} /\ Lost' <= Lost + Held /\ Lost' + Held' <= BatchMax * runs
<1>1. In("hand")' = {} /\ In("lost")' = In("lost") \cup In("hand")
  BY DEF In, Moved, TypeOK
<1>2. Held' = 0
  BY <1>1, FS_EmptySet DEF Held
<1>3. Lost' <= Lost + Held
  BY <1>1, Finite, JoinBound DEF Lost, Held
<1>4. Lost \in Nat /\ Held \in Nat /\ Lost' \in Nat /\ BatchMax * runs \in Nat
  BY Finite, FiniteAfter, OneMoreRun DEF Lost, Held, TypeOK
<1>5. Lost + Held <= BatchMax * runs
  BY DEF LossInv, LossIsOneBatchARun, Lost, Held
<1> QED
  BY <1>1, <1>2, <1>3, <1>4, <1>5

\* A step that takes no message in hand, loses none and keeps the phase and
\* the run keeps the bound.
LEMMA QuietLoss ==
  ASSUME TypeOK, LossInv, In("hand")' \subseteq In("hand"), In("lost")' = In("lost"), runs' = runs,
         phase' = phase, In("hand")' # {} => sub' \in {"polling", "routing"},
         puller' = "pulling" => puller = "pulling" \/ (phase = "serving" /\ In("hand") = {})
  PROVE  LossInv'
<1>1. Lost' = Lost
  BY DEF Lost
<1>2. Held' <= Held
  BY Finite, FS_Subset DEF Held
<1>3. Lost \in Nat /\ Held \in Nat /\ Held' \in Nat /\ BatchMax * runs \in Nat
  BY Finite, FiniteAfter, OneMoreRun DEF Lost, Held, TypeOK
<1>4. Held <= BatchMax /\ Lost + Held <= BatchMax * runs
  BY DEF LossInv, LossIsOneBatchARun, Lost, Held
<1>5. Held' <= BatchMax /\ Lost' + Held' <= BatchMax * runs'
  BY <1>1, <1>2, <1>3, <1>4
<1>6. Holding' /\ Ended'
  BY DEF LossInv, Holding, Ended
<1>7. Spare'
  BY <1>1 DEF LossInv, Spare
<1> QED
  BY <1>5, <1>6, <1>7 DEF LossInv, LossIsOneBatchARun, Lost, Held

\* No step loses more than the batch a run may lose.
LEMMA LossStep ==
  TypeOK /\ TypeOK' /\ Asked /\ Awaited /\ LossInv /\ [Next]_vars => LossInv'
<1> SUFFICES ASSUME TypeOK, TypeOK', Asked, Awaited, LossInv, [Next]_vars
             PROVE  LossInv'
  OBVIOUS
<1>n. /\ Lost \in Nat /\ Held \in Nat /\ Lost' \in Nat /\ Held' \in Nat
      /\ BatchMax * runs \in Nat /\ BatchMax * (runs + 1) = BatchMax * runs + BatchMax
  BY Finite, FiniteAfter, OneMoreRun DEF Lost, Held, TypeOK
<1>i. /\ Holding /\ Ended /\ Spare /\ Held <= BatchMax /\ Lost + Held <= BatchMax * runs
  BY DEF LossInv, LossIsOneBatchARun, Lost, Held
<1>p. Holding' /\ Ended' /\ Spare' /\ Held' <= BatchMax /\ Lost' + Held' <= BatchMax * runs' => LossInv'
  BY DEF LossInv, LossIsOneBatchARun, Lost, Held
<1>u. UNCHANGED at => In("hand")' = In("hand") /\ In("lost")' = In("lost")
  BY DEF In
<1>1. CASE Start
  <2>1. In("hand") = {} /\ In("hand")' = {} /\ Lost' = Lost
    BY <1>1, <1>i, <1>u DEF Start, Holding, Lost
  <2>2. Held' = 0 /\ Held = 0
    BY <2>1, FS_EmptySet DEF Held
  <2>3. Lost' + BatchMax <= BatchMax * runs'
    BY <1>1, <1>n, <1>i, <2>1, <2>2 DEF Start
  <2> QED
    BY <1>1, <1>n, <1>p, <2>1, <2>2, <2>3 DEF Start, Holding, Ended, Spare
<1>2. CASE Notice \/ Kill
  <2>1. In("hand")' = {} /\ Lost' <= Lost + Held /\ Lost' + Held' <= BatchMax * runs
    BY <1>2, DroppedHand DEF Notice, Kill
  <2>2. runs' = runs /\ phase' # "serving" /\ Held' = 0
    BY <1>2, <2>1, FS_EmptySet DEF Notice, Kill, Held
  <2>3. puller' = "pulling" => puller = "pulling" /\ phase' # "off"
    BY <1>2 DEF Notice, Kill
  <2>4. puller = "pulling" => Held = 0
    BY <1>i, FS_EmptySet DEF Holding, Held
  <2>5. Spare'
    BY <1>n, <1>i, <2>1, <2>2, <2>3, <2>4 DEF Spare
  <2> QED
    BY <1>n, <1>p, <2>1, <2>2, <2>3, <2>5 DEF Holding, Ended
<1>3. ASSUME NEW B \in SUBSET Message, PullBatch(B) PROVE LossInv'
  <2>1. IsFiniteSet(B) /\ Cardinality(B) \in Nat /\ Cardinality(B) <= BatchMax
    BY <1>3, FS_Subset, FS_CardinalityType DEF PullBatch
  <2>2. \A m \in B : at[m] = "queue"
    BY <1>3 DEF PullBatch, In
  <2>3. In("hand") = {} /\ Held = 0
    BY <1>3, <1>i, FS_EmptySet DEF PullBatch, Holding, Held
  <2>4. runs' = runs /\ phase' = phase /\ phase # "off" /\ puller' # "pulling"
    BY <1>3, <1>i DEF PullBatch, Ended, AfterCall
  <2>5. Lost + BatchMax <= BatchMax * runs
    BY <1>3, <1>i DEF PullBatch, Spare
  <2>6. CASE sub = "polling"
    <3>1. In("hand")' = B /\ In("lost")' = In("lost")
      BY <1>3, <2>2, <2>3, <2>6 DEF PullBatch, Moved, In
    <3>2. phase = "serving" /\ sub' = "polling"
      BY <1>3, <2>4, <2>6 DEF PullBatch, Asked, TypeOK
    <3> QED
      BY <1>n, <1>p, <2>1, <2>4, <2>5, <3>1, <3>2 DEF Holding, Ended, Spare, Lost, Held
  <2>7. CASE sub # "polling"
    <3>1. In("hand")' = {} /\ In("lost")' = In("lost") \cup B
      BY <1>3, <2>2, <2>3, <2>7 DEF PullBatch, Moved, In
    <3>2. Lost' <= Lost + Cardinality(B) /\ Held' = 0
      BY <2>1, <3>1, Finite, JoinBound, FS_EmptySet DEF Lost, Held
    <3>3. phase # "serving"
      BY <1>3, <2>7 DEF PullBatch, Awaited
    <3> QED
      BY <1>n, <1>p, <2>1, <2>4, <2>5, <3>1, <3>2, <3>3 DEF Holding, Ended, Spare
  <2> QED
    BY <2>6, <2>7
<1>4. ASSUME NEW m \in Message, Route(m) PROVE LossInv'
  <2>1. PICK place \in {"routed", "told", "refused", "silent"} : at' = [at EXCEPT ![m] = place]
    BY <1>4 DEF Route, OwnFailurePage, AfterFailure
  <2>2. In("hand")' \subseteq In("hand") /\ In("lost")' = In("lost")
    BY <1>4, <2>1 DEF Route, In, TypeOK
  <2>3. In("hand")' # {} => sub' \in {"polling", "routing"}
    BY <1>4 DEF Route, In
  <2> QED
    <3>1. runs' = runs /\ phase' = phase
      BY <1>4 DEF Route
    <3>2. puller' = "pulling" => puller = "pulling"
      BY <1>4 DEF Route
    <3> QED
      BY ONLY TypeOK, LossInv, <2>2, <2>3, <3>1, <3>2, QuietLoss
<1>5. ASSUME NEW m \in Message, Publish(m) PROVE LossInv'
  <2>1. In("hand")' \subseteq In("hand") /\ In("lost")' = In("lost")
    BY <1>5 DEF Publish, In, TypeOK
  <2> QED
    BY <1>5, <1>i, <2>1, QuietLoss DEF Publish, Holding
<1>6. CASE Poll
  BY <1>6, <1>i, <1>u, QuietLoss DEF Poll, Asked, Holding, TypeOK
<1>7. CASE Return
  <2>1. In("hand") = {}
    BY <1>7, <1>i DEF Return, Holding
  <2>2. Held = 0 /\ Held' = 0 /\ Lost' = Lost /\ In("hand")' = {}
    BY <1>7, <1>u, <2>1, FS_EmptySet DEF Return, Held, Lost
  <2> QED
    BY <1>7, <1>n, <1>i, <1>p, <2>2 DEF Return, Holding, Ended, Spare
<1>8. CASE RequestShutdown \/ BeginStream \/ Resume \/ PullFails \/ Reload \/ UNCHANGED vars
  <2>1. UNCHANGED <<at, phase, runs>> /\ (puller' = "pulling" => puller = "pulling")
    BY <1>8 DEF RequestShutdown, BeginStream, Resume, PullFails, AfterCall, Reload, vars
  <2>2. In("hand")' # {} => sub' \in {"polling", "routing"}
    BY <1>u, <1>8, <1>i DEF Holding, RequestShutdown, BeginStream, Resume, PullFails, Reload, vars
  <2> QED
    BY ONLY TypeOK, LossInv, <1>u, <2>1, <2>2, QuietLoss
<1> QED
  BY <1>1, <1>2, <1>3, <1>4, <1>5, <1>6, <1>7, <1>8 DEF Next, Subscriber, Pull

\* A redeploy or a crash costs at most the one batch that was in hand or on
\* its way.
THEOREM Loss == Spec => []LossIsOneBatchARun
<1>1. ASSUME Init PROVE LossInv
  <2>1. In("hand") = {} /\ In("lost") = {}
    BY <1>1 DEF Init, In
  <2>2. Held = 0 /\ Lost = 0 /\ BatchMax * runs = 0
    BY <1>1, <2>1, FS_EmptySet DEF Init, Held, Lost
  <2> QED
    BY <1>1, <2>1, <2>2
       DEF Init, LossInv, LossIsOneBatchARun, Holding, Ended, Spare, Held, Lost
<1>2. Init => Awaited /\ ReportInv
  BY DEF Init, Awaited, ReportInv, Asked, DeathIsReported
<1>3. ReportInv => Asked
  BY DEF ReportInv
<1>4. LossInv => LossIsOneBatchARun
  BY DEF LossInv
<1> QED
  BY <1>1, <1>2, <1>3, <1>4, TypeCorrect, AwaitedStep, ReportStep, LossStep, PTL DEF Spec

-----------------------------------------------------------------------------
(* TypedEvents.                                                            *)
USE EventsAssumption

-----------------------------------------------------------------------------
(* What the handlers give.                                                 *)

\* A list, and everything on it about the payload's subject.
ListAbout(alerts, p) ==
    alerts \in Seq(ToSet(alerts)) /\ \A a \in ToSet(alerts) : a.about = p.about

\* What is on a list of a set is in the set.
LEMMA OnAList == ASSUME NEW S, NEW s \in Seq(S) PROVE ToSet(s) \subseteq S
BY DEF ToSet

\* A list is its head and its tail.
LEMMA HeadAndTail ==
    ASSUME NEW S, NEW s \in Seq(S), s # <<>>
    PROVE  /\ Head(s) \in S /\ Tail(s) \in Seq(S)
           /\ ToSet(s) = {Head(s)} \cup ToSet(Tail(s))
<1>1. /\ Len(s) \in Nat /\ Len(s) > 0 /\ DOMAIN s = 1 .. Len(s)
      /\ Head(s) = s[1] /\ Tail(s) \in Seq(S)
      /\ DOMAIN Tail(s) = 1 .. Len(s) - 1
      /\ \A i \in 1 .. Len(s) - 1 : Tail(s)[i] = s[i + 1]
  OBVIOUS
<1>2. ASSUME NEW i \in DOMAIN s PROVE s[i] \in {Head(s)} \cup ToSet(Tail(s))
  <2>1. CASE i = 1
    BY <1>1, <2>1
  <2>2. CASE i # 1
    <3>1. i - 1 \in 1 .. Len(s) - 1 /\ Tail(s)[i - 1] = s[i]
      BY <1>1, <2>2
    <3> QED
      BY <1>1, <3>1 DEF ToSet
  <2> QED
    BY <2>1, <2>2
<1>3. ASSUME NEW i \in DOMAIN Tail(s) PROVE Tail(s)[i] \in ToSet(s)
  <2>1. i + 1 \in DOMAIN s /\ Tail(s)[i] = s[i + 1]
    BY <1>1
  <2> QED
    BY <2>1 DEF ToSet
<1>4. Head(s) \in ToSet(s)
  BY <1>1 DEF ToSet
<1>5. ToSet(s) = {Head(s)} \cup ToSet(Tail(s))
  BY <1>2, <1>3, <1>4 DEF ToSet
<1> QED
  BY <1>1, <1>5

\* An alert is about the subject of its payload.
LEMMA AlertAbout ==
    ASSUME NEW topic, NEW name, NEW severity, NEW mark, NEW p
    PROVE  ListAbout(<<Alert(topic, name, severity, mark, p)>>, p)
<1> DEFINE a == Alert(topic, name, severity, mark, p)
<1>1. a.about = p.about
  BY DEF Alert
<1> HIDE DEF a
<1>2. ToSet(<<a>>) = {a}
  BY DEF ToSet
<1>3. <<a>> \in Seq({a})
  OBVIOUS
<1>4. ListAbout(<<a>>, p)
  BY <1>1, <1>2, <1>3 DEF ListAbout
<1> QED
  BY <1>4 DEF a

\* No alert is a list too.
LEMMA NoAlert == ASSUME NEW p PROVE ListAbout(<<>>, p)
<1>1. ToSet(<<>>) = {}
  BY DEF ToSet
<1> QED
  BY <1>1 DEF ListAbout

\* The breaches of a payload are a list.
LEMMA BreachesAreAList ==
    ASSUME NEW p PROVE Breaches(p) \in Seq(p.flags \cup {AgeRule(p)})
<1> DEFINE S == p.flags \cup {AgeRule(p)}
<1>1. ASSUME NEW override PROVE Reported(override, p) \in Seq(S)
  <2>1. CASE override \in p.flags
    BY <2>1 DEF Reported
  <2>2. CASE override \notin p.flags
    BY <2>2 DEF Reported
  <2> QED
    BY <2>1, <2>2
<1> HIDE DEF S
<1>2. Raised(p) \in Seq(S)
  BY <1>1 DEF Raised
<1>3. <<AgeRule(p)>> \in Seq(S)
  BY DEF S
<1>4. Breaches(p) \in Seq(S)
  BY <1>2, <1>3 DEF Breaches
<1> QED
  BY <1>4 DEF S

\* So are the alerts about them.
LEMMA ReconciliationList == ASSUME NEW p PROVE ListAbout(ReconciliationAge(p), p)
<1>1. Len(Breaches(p)) \in Nat /\ DOMAIN Breaches(p) = 1 .. Len(Breaches(p))
  BY BreachesAreAList
<1> DEFINE r == ReconciliationAge(p)
<1>2. /\ r = [i \in 1 .. Len(Breaches(p)) |-> r[i]]
      /\ \A i \in 1 .. Len(Breaches(p)) : r[i] \in ToSet(r)
  BY <1>1 DEF ReconciliationAge, ToSet
<1>3. \A a \in ToSet(r) : a.about = p.about
  BY DEF ReconciliationAge, ToSet, Alert
<1> HIDE DEF r
<1>4. r \in Seq(ToSet(r))
  BY <1>1, <1>2
<1> QED
  BY <1>3, <1>4 DEF r, ListAbout

\* The handlers of one alert, or of none.
LEMMA HandlerLists ==
    ASSUME NEW p
    PROVE  /\ ListAbout(KillSwitchArmed(p), p) /\ ListAbout(KillSwitchDisarm(p), p)
           /\ ListAbout(BreakerFired(p), p) /\ ListAbout(RiskRule(p), p)
           /\ ListAbout(Margin(p), p) /\ ListAbout(Drift(p), p)
           /\ ListAbout(ConsolidatorDown(p), p) /\ ListAbout(ConsolidatorRecovered(p), p)
           /\ ListAbout(ConsolidationStalled(p), p) /\ ListAbout(PassThrough(p), p)
BY AlertAbout DEF KillSwitchArmed, KillSwitchDisarm, BreakerFired, RiskRule, Margin, Drift,
      ConsolidatorDown, ConsolidatorRecovered, ConsolidationStalled, PassThrough

\* The staleness ladder and the features, whose rules may not fire.
LEMMA RuleLists ==
    ASSUME NEW p
    PROVE  /\ ListAbout(Staleness(p), p)
           /\ p.type \in DefiFeatures => ListAbout(DefiFeature(p), p)
<1>1. ListAbout(Staleness(p), p)
  BY AlertAbout, NoAlert DEF Staleness
<1>2. ASSUME NEW condition, NEW name, NEW severity
      PROVE  ListAbout(Fires(condition, name, severity, p), p)
  BY AlertAbout, NoAlert DEF Fires
<1>3. /\ ListAbout(WeethDepeg(p), p) /\ ListAbout(AaveUtilization(p), p)
      /\ ListAbout(FundingRateFlip(p), p) /\ ListAbout(FeatureStale(p), p)
  BY <1>2 DEF WeethDepeg, AaveUtilization, FundingRateFlip, FeatureStale
<1>4. p.type \in DefiFeatures => ListAbout(DefiFeature(p), p)
  BY <1>3 DEF DefiFeature, DefiFeatures
<1> QED
  BY <1>1, <1>4

\* The incident path, through the gate or past it.
LEMMA IncidentLists ==
    ASSUME NEW p, NEW verdicts
    PROVE  ListAbout(RouteIncident(p, verdicts), p) /\ ListAbout(RouteLegacy(p), p)
<1>1. ASSUME NEW state, NEW rung PROVE ListAbout(Incident(state, rung, p), p)
  BY AlertAbout DEF Incident
<1>2. ListAbout(Recovery(p, verdicts), p)
  BY <1>1, NoAlert DEF Recovery
<1> QED
  BY <1>1, <1>2 DEF RouteIncident, RouteLegacy

\* Whatever the payload, what it brings is a list of alerts about its subject.
LEMMA AlertsAreAList ==
    ASSUME NEW p, NEW verdicts PROVE ListAbout(Alerts(p, verdicts), p)
<1>1. ListAbout(Dispatched(p), p)
  BY HandlerLists, RuleLists DEF Dispatched
<1>2. ListAbout(Called(p, verdicts), p)
  BY IncidentLists, ReconciliationList DEF Called
<1> QED
  BY <1>1, <1>2, NoAlert DEF Alerts

\* The freezes of a payload, all of them or the first few.
LEMMA FreezesAreAList ==
    ASSUME NEW p
    PROVE  /\ FreezesOf(p) \in Seq({EveryInstrument, p.about})
           /\ \A j \in 0 .. Len(FreezesOf(p)) :
                ToSet(SubSeq(FreezesOf(p), 1, j)) \subseteq {EveryInstrument, p.about}
           /\ ToSet(SubSeq(FreezesOf(p), 1, Len(FreezesOf(p)))) = ToSet(FreezesOf(p))
<1> DEFINE S == {EveryInstrument, p.about}
<1>1. Len(Breaches(p)) \in Nat /\ DOMAIN Breaches(p) = 1 .. Len(Breaches(p))
  BY BreachesAreAList
<1>2. \A i \in DOMAIN Breaches(p) : FreezeScope(Breaches(p)[i], p) \in S
  BY DEF FreezeScope
<1>3. Freezes(p) \in Seq(S)
  BY <1>1, <1>2 DEF Freezes
<1> HIDE DEF S
<1>4. FreezesOf(p) \in Seq(S)
  BY <1>3 DEF FreezesOf
<1>5. ASSUME NEW j \in 0 .. Len(FreezesOf(p))
      PROVE  ToSet(SubSeq(FreezesOf(p), 1, j)) \subseteq S
  <2>1. SubSeq(FreezesOf(p), 1, j) \in Seq(S)
    BY <1>4
  <2> QED
    BY <2>1, OnAList
<1>6. ToSet(SubSeq(FreezesOf(p), 1, Len(FreezesOf(p)))) = ToSet(FreezesOf(p))
  <2>1. SubSeq(FreezesOf(p), 1, Len(FreezesOf(p))) = FreezesOf(p)
    BY <1>4
  <2> QED
    BY <2>1
<1> QED
  BY <1>4, <1>5, <1>6 DEF S

\* What a payload owes: a model, or what one of its freezes halts.
LEMMA OwedByPayload ==
    ASSUME NEW p, NEW h \in Owed(p)
    PROVE  \/ /\ h = [halt |-> "model", of |-> p.about]
              /\ p.shape # "call" /\ p.type = "ML_SIGNAL_STALENESS"
              /\ p.valid /\ p.reading >= KillHours
           \/ /\ h = [halt |-> "orders", of |-> h.of]
              /\ h.of \in ToSet(FreezesOf(p))
<1>1. CASE h \in {[halt |-> "model", of |-> q.about] :
     q \in {q \in {p} : /\ q.shape # "call" /\ q.type = "ML_SIGNAL_STALENESS"
                         /\ q.valid /\ q.reading >= KillHours}}
  BY <1>1
<1>2. CASE IsReconciliation(p) /\ h \in {
        [halt |-> "orders", of |-> IF b \in AccountWide THEN EveryInstrument ELSE p.about] :
          b \in ToSet(Breaches(p))}
  <2>1. PICK b \in ToSet(Breaches(p)) :
          h = [halt |-> "orders", of |-> IF b \in AccountWide THEN EveryInstrument ELSE p.about]
    BY <1>2
  <2>2. h = [halt |-> "orders", of |-> FreezeScope(b, p)]
    BY <2>1 DEF FreezeScope
  <2>3. PICK i \in DOMAIN Breaches(p) : b = Breaches(p)[i]
    BY DEF ToSet
  <2>4. Freezes(p)[i] = FreezeScope(b, p) /\ i \in DOMAIN Freezes(p)
    BY <2>3 DEF Freezes
  <2>5. FreezeScope(b, p) \in ToSet(FreezesOf(p))
    BY <1>2, <2>4 DEF FreezesOf, ToSet
  <2> QED
    BY <2>2, <2>5
<1> QED
  BY <1>1, <1>2 DEF Owed

-----------------------------------------------------------------------------
(* Type correctness.                                                       *)

\* What a map holds once one more thing has been noted.
LEMMA NotedHolds ==
    ASSUME NEW condition, NEW map, NEW key, NEW value
    PROVE  /\ DOMAIN map \subseteq DOMAIN Noted(condition, map, key, value)
           /\ DOMAIN Noted(condition, map, key, value) \subseteq DOMAIN map \cup {key}
           /\ condition => key \in DOMAIN Noted(condition, map, key, value)
                             /\ Noted(condition, map, key, value)[key] = value
           /\ ~condition => Noted(condition, map, key, value) = map
           /\ \A k \in DOMAIN map : k # key => Noted(condition, map, key, value)[k] = map[k]
BY DEF Noted

\* A map of times stays one when the present is noted, and as time passes.
LEMMA NotedTimes ==
    ASSUME now \in Nat, NEW map, AreTimes(map), NEW condition, NEW key
    PROVE  AreTimes(Noted(condition, map, key, now))
BY DEF AreTimes, Noted

LEMMA TickTimes ==
    ASSUME now \in Nat, now' = now + 1, NEW map, AreTimes(map)
    PROVE  \A key \in DOMAIN map : map[key] \in 0 .. now'
<1> SUFFICES ASSUME NEW key \in DOMAIN map PROVE map[key] \in 0 .. now'
  OBVIOUS
<1>1. map[key] \in 0 .. now
  BY DEF AreTimes
<1> QED
  BY <1>1

\* The claim of an alert is dated now.
LEMMA ClaimedTimes ==
    ASSUME EventsTypeOK, NEW a, NEW new
    PROVE  AreTimes(Claimed(a, new).seen) /\ AreTimes(Claimed(a, new).cooldown)
<1>1. now \in Nat /\ AreTimes(router.seen) /\ AreTimes(router.cooldown)
  BY DEF EventsTypeOK
<1>2. /\ AreTimes(Noted(new, router.seen, Identity(a), now))
      /\ AreTimes(Noted(new /\ IsRecurring(a), router.cooldown, Identity(a), now))
  BY <1>1, NotedTimes
<1> QED
  BY <1>2 DEF Claimed

\* The next alert of a message in hand.
LEMMA NextAlert ==
    ASSUME EventsTypeOK, NEW m \in hand, m.alerts # <<>>
    PROVE  /\ Head(m.alerts) \in Bringing(m.payload) /\ Head(m.alerts) \in ToSet(m.alerts)
           /\ Tail(m.alerts) \in Seq(Bringing(m.payload))
           /\ ToSet(m.alerts) = {Head(m.alerts)} \cup ToSet(Tail(m.alerts))
           /\ Head(m.alerts).about = m.payload.about
<1> DEFINE S == Bringing(m.payload)
<1>1. m.alerts \in Seq(S)
  BY DEF EventsTypeOK
<1>2. \A a \in S : a.about = m.payload.about
  BY AlertsAreAList DEF Bringing, ListAbout
<1> HIDE DEF S
<1> QED
  BY <1>1, <1>2, HeadAndTail DEF S

\* A payload is taken in hand with what it brings.
LEMMA ReceivedType ==
    ASSUME NEW p \in arriving, Receive(p)
    PROVE  \A m \in hand' : m.payload \in Payloads /\ m.alerts \in Seq(Bringing(m.payload))
<1>1. PICK verdicts \in [Services -> Verdicts] :
        hand' = {[payload |-> Received(p), alerts |-> Alerts(Received(p), verdicts)]}
  BY DEF Receive
<1> DEFINE alerts == Alerts(Received(p), verdicts)
<1>2. ToSet(alerts) \subseteq Bringing(Received(p))
  BY DEF Bringing
<1>3. alerts \in Seq(ToSet(alerts))
  BY AlertsAreAList DEF ListAbout
<1> HIDE DEF alerts
<1>4. alerts \in Seq(Bringing(Received(p)))
  BY <1>2, <1>3
<1>5. Received(p) \in Payloads
  BY DEF Payloads
<1> QED
  BY <1>1, <1>4, <1>5 DEF alerts

\* The state has its type.
THEOREM EventsTypeCorrect == EventsSpec => []EventsTypeOK
<1>1. ASSUME EventsInit PROVE EventsTypeOK
  <2>1. DOMAIN Nothing = {}
    BY DEF Nothing
  <2> QED
    BY <1>1, <2>1 DEF EventsInit, EventsTypeOK, AreTimes
<1>2. EventsTypeOK /\ [EventsNext]_eventsVars => EventsTypeOK'
  <2> SUFFICES ASSUME EventsTypeOK, [EventsNext]_eventsVars PROVE EventsTypeOK'
    OBVIOUS
  <2>0. /\ now \in Nat /\ AreTimes(router.seen) /\ AreTimes(router.cooldown)
    BY DEF EventsTypeOK
  <2>1. ASSUME NEW p \in arriving, Receive(p) PROVE EventsTypeOK'
    <3>1. UNCHANGED <<now, arriving, router, people, fired, broken, frozen, owed>>
      BY <2>1 DEF Receive
    <3>2. \A m \in hand' : m.payload \in Payloads /\ m.alerts \in Seq(Bringing(m.payload))
      BY <2>1, ReceivedType
    <3> QED
      BY <3>1, <3>2 DEF EventsTypeOK, Payloads, AreTimes, Bringing
  <2>2. ASSUME NEW m \in hand, RouteAlert(m) PROVE EventsTypeOK'
    <3> DEFINE a == Head(m.alerts)
               new == ~IsDuplicate(a)
    <3>1. /\ UNCHANGED <<now, arriving, frozen>>
          /\ router' = Claimed(a, new)
          /\ people' = [latest |-> Noted(TRUE, people.latest, Subject(a), a),
                        told |-> Noted(new, people.told, Subject(a), a)]
          /\ hand' = {[payload |-> m.payload, alerts |-> Tail(m.alerts)]}
          /\ m.alerts # <<>>
      BY <2>2 DEF RouteAlert
    <3>2. m.payload \in Payloads /\ Tail(m.alerts) \in Seq(Bringing(m.payload))
      BY <3>1, NextAlert DEF EventsTypeOK
    <3> HIDE DEF a, new
    <3>3. AreTimes(router.seen)' /\ AreTimes(router.cooldown)'
      BY <3>1, ClaimedTimes DEF AreTimes
    <3>4. DOMAIN people'.told \subseteq DOMAIN people'.latest
      <4>1. DOMAIN people'.told \subseteq DOMAIN people.told \cup {Subject(a)}
        BY <3>1, NotedHolds
      <4>2. DOMAIN people.latest \cup {Subject(a)} \subseteq DOMAIN people'.latest
        BY <3>1 DEF Noted
      <4> QED
        BY <4>1, <4>2 DEF EventsTypeOK
    <3>5. \A n \in hand' : n.payload \in Payloads /\ n.alerts \in Seq(Bringing(n.payload))
      <4> SUFFICES ASSUME NEW n \in hand'
                   PROVE  n.payload \in Payloads /\ n.alerts \in Seq(Bringing(n.payload))
        OBVIOUS
      <4>1. n.payload = m.payload /\ n.alerts = Tail(m.alerts)
        BY <3>1
      <4> QED
        BY <3>2, <4>1
    <3> QED
      BY <3>1, <3>3, <3>4, <3>5 DEF EventsTypeOK, Payloads, Bringing, AreTimes
  <2>3. ASSUME NEW m \in hand, RoutingRaises(m) PROVE EventsTypeOK'
    <3>1. PICK new : router' = Claimed(Head(m.alerts), new)
      BY <2>3 DEF RoutingRaises
    <3>2. UNCHANGED <<now, arriving, people, frozen>> /\ hand' = {}
      BY <2>3 DEF RoutingRaises
    <3>3. AreTimes(router.seen)' /\ AreTimes(router.cooldown)'
      BY <3>1, <3>2, ClaimedTimes DEF AreTimes
    <3> QED
      BY <3>2, <3>3 DEF EventsTypeOK, Payloads, Bringing
  <2>4. ASSUME NEW m \in hand, ArmFreezes(m) PROVE EventsTypeOK'
    <3>1. /\ UNCHANGED <<now, arriving, router, people>> /\ hand' = {}
          /\ \E j \in 0 .. Len(FreezesOf(m.payload)) :
               frozen' = frozen \cup ToSet(SubSeq(FreezesOf(m.payload), 1, j))
      BY <2>4 DEF ArmFreezes
    <3>2. frozen' \subseteq frozen \cup {EveryInstrument, m.payload.about}
      BY <3>1, FreezesAreAList
    <3>3. m.payload.about \in {p.about : p \in Payloads}
      BY DEF EventsTypeOK
    <3> QED
      BY <3>1, <3>2, <3>3 DEF EventsTypeOK, Payloads, AreTimes
  <2>5. ASSUME NEW scope \in frozen, Lift(scope) PROVE EventsTypeOK'
    BY <2>5 DEF Lift, EventsTypeOK, AreTimes, Payloads
  <2>6. CASE Restart
    <3>1. DOMAIN Nothing = {}
      BY DEF Nothing
    <3> QED
      BY <2>6, <3>1 DEF Restart, EventsTypeOK, AreTimes, Payloads
  <2>7. CASE Tick
    <3>1. now' = now + 1 /\ now' \in 0 .. MaxTime
          /\ UNCHANGED <<arriving, hand, router, people, frozen>>
      BY <2>7 DEF Tick, EventsTypeOK
    <3>2. AreTimes(router.seen)' /\ AreTimes(router.cooldown)'
      BY <2>0, <3>1, TickTimes DEF AreTimes
    <3> QED
      BY <3>1, <3>2 DEF EventsTypeOK, Payloads
  <2>8. CASE UNCHANGED eventsVars
    BY <2>8 DEF eventsVars, EventsTypeOK, AreTimes, Payloads
  <2> QED
    BY <2>1, <2>2, <2>3, <2>4, <2>5, <2>6, <2>7, <2>8 DEF EventsNext
<1> QED
  BY <1>1, <1>2, PTL DEF EventsSpec

-----------------------------------------------------------------------------
(* What has been handled without a failure has halted what it must.        *)

Stopped == fired \cup broken

\* A kill that was claimed, and so stands in the way of its repetition, has been
\* carried out, or its handling has failed.
Carried(map) == \A a \in DOMAIN map : a.name = ModelFailure => a.about \in Stopped

ClaimedKills == Carried(router.seen) /\ Carried(router.cooldown)

\* A kill the message in hand calls for is done, or among the alerts to come.
KillsToCome ==
    \A m \in hand : \A h \in Owed(m.payload) :
      h.halt = "model" => \/ h.of \in Stopped
                          \/ \E a \in ToSet(m.alerts) : a.name = ModelFailure /\ a.about = h.of

OwedShape ==
    \A h \in owed : h \in {[halt |-> "model", of |-> h.of], [halt |-> "orders", of |-> h.of]}

HaltsInv == ClaimedKills /\ KillsToCome /\ OwedShape /\ HaltsFollowBreaches

\* The readings of what is received are whole numbers.
LEMMA ReadingsAreNumbers ==
    ASSUME arriving \in Traffic, NEW p \in arriving PROVE Received(p).reading \in Int
<1> DEFINE PayloadRecord ==
      [type : STRING, about : STRING, what : STRING, reading : Int, limit : Int,
       stamp : Int, valid : BOOLEAN, flags : SUBSET STRING, shape : STRING]
<1>1. p \in PayloadRecord
  BY TrafficAssumption
<1>2. Unwrapped(p).reading \in Int
  <2> DEFINE hollow == [p EXCEPT !.about = "unknown", !.what = "", !.reading = 0,
                                 !.valid = FALSE, !.flags = {}]
  <2>1. hollow.reading = 0
    BY <1>1
  <2>2. Unwrapped(p) \in {hollow, p}
    BY DEF Unwrapped
  <2>3. p.reading \in Int
    BY <1>1
  <2> HIDE DEF hollow
  <2> QED
    BY <2>1, <2>2, <2>3
<1>3. CASE p.shape = "undecodable"
  <2>1. Received(p).reading = p.reading
    BY <1>1, <1>3 DEF Received
  <2> QED
    BY <1>1, <2>1
<1>4. CASE p.shape = "number"
  <2>1. Received(p) = [p EXCEPT !.type = "unread"]
    BY <1>4 DEF Received
  <2> QED
    BY <1>1, <2>1
<1>5. CASE p.shape # "undecodable" /\ p.shape # "number"
  <2>1. Received(p) = Unwrapped(p)
    BY <1>5 DEF Received
  <2> QED
    BY <1>2, <2>1
<1> QED
  BY <1>3, <1>4, <1>5

\* A payload that owes a model to be stopped brings the alert that stops it.
LEMMA KillIsBrought ==
    ASSUME NEW p, p.reading \in Int, NEW verdicts, NEW h \in Owed(p), h.halt = "model"
    PROVE  \E a \in ToSet(Alerts(p, verdicts)) : a.name = ModelFailure /\ a.about = h.of
<1>1. /\ h = [halt |-> "model", of |-> p.about]
      /\ p.shape # "call" /\ p.type = "ML_SIGNAL_STALENESS"
      /\ p.valid /\ p.reading >= KillHours
  <2>1. h # [halt |-> "orders", of |-> h.of]
    OBVIOUS
  <2> QED
    BY <2>1, OwedByPayload
<1> DEFINE a == Alert("model", ModelFailure, "critical", p.reading, p)
<1>2. Alerts(p, verdicts) = Staleness(p)
  BY <1>1 DEF Alerts, Dispatched, DefiFeatures
<1>4. Staleness(p) = <<a>>
  BY <1>1 DEF Staleness, KillHours, WarnHours
<1>5. a.name = ModelFailure /\ a.about = p.about
  BY DEF Alert
<1> HIDE DEF a
<1>6. ToSet(<<a>>) = {a}
  BY DEF ToSet
<1> QED
  BY <1>1, <1>2, <1>4, <1>5, <1>6

\* What is claimed now has stopped what it must, or its handling has failed.
LEMMA ClaimCarried ==
    ASSUME ClaimedKills, NEW a, NEW new, router' = Claimed(a, new),
           Stopped \subseteq Stopped',
           new /\ a.name = ModelFailure => a.about \in Stopped'
    PROVE  ClaimedKills'
<1> DEFINE i == Identity(a)
<1>0. i.name = a.name /\ i.about = a.about
  BY DEF Identity
<1> HIDE DEF i
<1>1. ASSUME NEW map, Carried(map), NEW condition, condition => new, NEW value,
             NEW b \in DOMAIN Noted(condition, map, i, value), b.name = ModelFailure
      PROVE  b.about \in Stopped'
  <2>1. b \in DOMAIN map \/ (b = i /\ condition)
    BY <1>1 DEF Noted
  <2> QED
    BY <1>0, <1>1, <2>1 DEF Carried
<1>2. /\ router'.seen = Noted(new, router.seen, i, now)
      /\ router'.cooldown = Noted(new /\ IsRecurring(a), router.cooldown, i, now)
  BY DEF Claimed, i
<1>3. \A b \in DOMAIN router'.seen : b.name = ModelFailure => b.about \in Stopped'
  BY <1>1, <1>2 DEF ClaimedKills
<1>4. \A b \in DOMAIN router'.cooldown : b.name = ModelFailure => b.about \in Stopped'
  BY <1>1, <1>2 DEF ClaimedKills
<1> QED
  BY <1>3, <1>4 DEF ClaimedKills, Carried

\* After an alert has been routed, its kill is done: by this routing, or, if it
\* was a duplicate, by the one that claimed it.
LEMMA RoutedKillIsDone ==
    ASSUME ClaimedKills, NEW m \in hand, RouteAlert(m), Head(m.alerts).name = ModelFailure
    PROVE  Head(m.alerts).about \in Stopped'
<1> DEFINE a == Head(m.alerts)
<1>1. CASE IsDuplicate(a)
  <2>1. Identity(a) \in DOMAIN router.seen \/ Identity(a) \in DOMAIN router.cooldown
    BY <1>1 DEF IsDuplicate
  <2>2. Identity(a).name = a.name /\ Identity(a).about = a.about
    BY DEF Identity
  <2>4. a.about \in Stopped
    BY <2>1, <2>2 DEF ClaimedKills, Carried
  <2>3. Stopped \subseteq Stopped'
    BY DEF RouteAlert, Stopped
  <2> QED
    BY <2>3, <2>4
<1>2. CASE ~IsDuplicate(a)
  BY <1>2 DEF RouteAlert, Stopped
<1> QED
  BY <1>1, <1>2

\* What has been handled without a failure, down to its last freeze, has halted
\* the model it had to stop and the orders it had to freeze.
LEMMA HandledHalts ==
    ASSUME HaltsInv, NEW m \in hand, ArmFreezes(m) PROVE HaltsInv'
<1>1. /\ m.alerts = <<>> /\ hand' = {} /\ UNCHANGED <<router, fired, broken>>
      /\ \E j \in 0 .. Len(FreezesOf(m.payload)) :
           /\ frozen' = frozen \cup ToSet(SubSeq(FreezesOf(m.payload), 1, j))
           /\ owed' = owed \cup {h \in Owed(m.payload) : j = Len(FreezesOf(m.payload))}
  BY DEF ArmFreezes
<1>2. PICK j \in 0 .. Len(FreezesOf(m.payload)) :
        /\ frozen' = frozen \cup ToSet(SubSeq(FreezesOf(m.payload), 1, j))
        /\ owed' = owed \cup {h \in Owed(m.payload) : j = Len(FreezesOf(m.payload))}
  BY <1>1
<1>3. ClaimedKills' /\ KillsToCome' /\ Stopped' = Stopped
  BY <1>1 DEF HaltsInv, ClaimedKills, Carried, KillsToCome, Stopped
<1>4. ASSUME NEW h \in owed', h \notin owed
      PROVE  /\ h \in {[halt |-> "model", of |-> h.of], [halt |-> "orders", of |-> h.of]}
             /\ h.of \in (IF h.halt = "model" THEN Stopped ELSE frozen')
  <2>1. h \in Owed(m.payload) /\ j = Len(FreezesOf(m.payload))
    BY <1>2, <1>4
  <2>2. CASE h = [halt |-> "model", of |-> m.payload.about]
    <3>1. ToSet(m.alerts) = {}
      BY <1>1 DEF ToSet
    <3>2. h.halt = "model"
      BY <2>2
    <3>3. h.of \in Stopped
      BY <2>1, <3>1, <3>2 DEF HaltsInv, KillsToCome
    <3> QED
      BY <2>2, <3>2, <3>3
  <2>3. CASE h = [halt |-> "orders", of |-> h.of] /\ h.of \in ToSet(FreezesOf(m.payload))
    <3>1. ToSet(FreezesOf(m.payload)) \subseteq frozen'
      BY <1>2, <2>1, FreezesAreAList
    <3>2. h.halt # "model"
      BY <2>3
    <3> QED
      BY <2>3, <3>1, <3>2
  <2> QED
    BY <2>1, <2>2, <2>3, OwedByPayload
<1>5. OwedShape'
  BY <1>2, <1>4 DEF HaltsInv, OwedShape
<1>6. HaltsFollowBreaches'
  <2> SUFFICES ASSUME NEW h \in owed'
               PROVE  h.of \in (IF h.halt = "model" THEN fired' \cup broken' ELSE frozen')
    BY DEF HaltsFollowBreaches
  <2>1. CASE h \in owed
    BY <1>1, <1>2, <2>1 DEF HaltsInv, HaltsFollowBreaches
  <2>2. CASE h \notin owed
    BY <1>1, <1>4, <2>2 DEF Stopped
  <2> QED
    BY <2>1, <2>2
<1> QED
  BY <1>3, <1>5, <1>6 DEF HaltsInv

\* What was handled without a failure has halted what it puts in doubt: no
\* duplicate, redelivery or restart makes a kill or a freeze that is owed go
\* missing.  A kill is carried out by the routing that claims its alert, so that
\* a duplicate finds it done (ClaimedKills); until then it is in hand
\* (KillsToCome).
THEOREM HaltsCorrect == EventsSpec => []HaltsFollowBreaches
<1>1. ASSUME EventsInit PROVE HaltsInv
  <2>1. DOMAIN Nothing = {}
    BY DEF Nothing
  <2> QED
    BY <1>1, <2>1 DEF EventsInit, HaltsInv, ClaimedKills, Carried, KillsToCome, OwedShape,
       HaltsFollowBreaches
<1>2. EventsTypeOK /\ HaltsInv /\ [EventsNext]_eventsVars => HaltsInv'
  <2> SUFFICES ASSUME EventsTypeOK, HaltsInv, [EventsNext]_eventsVars PROVE HaltsInv'
    OBVIOUS
  <2>0. ASSUME Stopped \subseteq Stopped', UNCHANGED <<frozen, owed>>
        PROVE  (OwedShape /\ HaltsFollowBreaches)'
    BY <2>0 DEF HaltsInv, OwedShape, HaltsFollowBreaches, Stopped
  <2>1. ASSUME NEW p \in arriving, Receive(p) PROVE HaltsInv'
    <3>1. UNCHANGED <<router, fired, broken, frozen, owed>>
      BY <2>1 DEF Receive
    <3>2. PICK verdicts \in [Services -> Verdicts] :
            hand' = {[payload |-> Received(p), alerts |-> Alerts(Received(p), verdicts)]}
      BY <2>1 DEF Receive
    <3>3. Received(p).reading \in Int
      BY ReadingsAreNumbers DEF EventsTypeOK
    <3>4. ASSUME NEW m \in hand', NEW h \in Owed(m.payload), h.halt = "model"
          PROVE  \E a \in ToSet(m.alerts) : a.name = ModelFailure /\ a.about = h.of
      <4>1. m.payload = Received(p) /\ m.alerts = Alerts(Received(p), verdicts)
        BY <3>2
      <4>2. h \in Owed(Received(p))
        BY <3>4, <4>1
      <4> QED
        BY <3>3, <3>4, <4>1, <4>2, KillIsBrought
    <3>5. KillsToCome'
      BY <3>4 DEF KillsToCome, Owed
    <3>6. ClaimedKills' /\ Stopped \subseteq Stopped'
      BY <3>1 DEF HaltsInv, ClaimedKills, Carried, Stopped
    <3> QED
      BY <2>0, <3>1, <3>5, <3>6 DEF HaltsInv
  <2>2. ASSUME NEW m \in hand, RouteAlert(m) PROVE HaltsInv'
    <3> DEFINE a == Head(m.alerts)
               new == ~IsDuplicate(a)
    <3>1. /\ m.alerts # <<>> /\ router' = Claimed(a, new) /\ UNCHANGED <<frozen, owed>>
          /\ hand' = {[payload |-> m.payload, alerts |-> Tail(m.alerts)]}
      BY <2>2 DEF RouteAlert
    <3>2. Stopped \subseteq Stopped'
      BY <2>2 DEF RouteAlert, Stopped
    <3>3. a.name = ModelFailure => a.about \in Stopped'
      BY <2>2, RoutedKillIsDone DEF HaltsInv
    <3>4. ToSet(m.alerts) = {a} \cup ToSet(Tail(m.alerts))
      BY <3>1, NextAlert
    <3> HIDE DEF a, new
    <3>5. ClaimedKills'
      BY <3>1, <3>2, <3>3, ClaimCarried DEF HaltsInv
    <3>6. ASSUME NEW n \in hand', NEW h \in Owed(n.payload), h.halt = "model"
          PROVE  h.of \in Stopped' \/ \E b \in ToSet(n.alerts) : b.name = ModelFailure /\ b.about = h.of
      <4>1. n.payload = m.payload /\ n.alerts = Tail(m.alerts)
        BY <3>1
      <4>2. h \in Owed(m.payload)
        BY <3>6, <4>1
      <4>3. h.of \in Stopped \/ \E b \in ToSet(m.alerts) : b.name = ModelFailure /\ b.about = h.of
        BY <3>6, <4>2 DEF HaltsInv, KillsToCome
      <4> QED
        BY <3>2, <3>3, <3>4, <4>1, <4>3
    <3>7. KillsToCome'
      BY <3>6 DEF KillsToCome, Owed
    <3> QED
      BY <2>0, <3>1, <3>2, <3>5, <3>7 DEF HaltsInv
  <2>3. ASSUME NEW m \in hand, RoutingRaises(m) PROVE HaltsInv'
    <3> DEFINE a == Head(m.alerts)
    <3>1. /\ m.alerts # <<>> /\ hand' = {} /\ UNCHANGED <<fired, frozen, owed>>
          /\ \E new : router' = Claimed(a, new)
          /\ broken' = broken \cup {m.payload.about}
      BY <2>3 DEF RoutingRaises
    <3>2. PICK new : router' = Claimed(a, new)
      BY <3>1
    <3>3. a.about \in Stopped' /\ Stopped \subseteq Stopped'
      BY <3>1, NextAlert DEF Stopped
    <3> HIDE DEF a
    <3>4. ClaimedKills'
      BY <3>2, <3>3, ClaimCarried DEF HaltsInv
    <3>5. KillsToCome'
      BY <3>1 DEF KillsToCome
    <3> QED
      BY <2>0, <3>1, <3>3, <3>4, <3>5 DEF HaltsInv
  <2>4. ASSUME NEW m \in hand, ArmFreezes(m) PROVE HaltsInv'
    BY <2>4, HandledHalts
  <2>5. ASSUME NEW scope \in frozen, Lift(scope) PROVE HaltsInv'
    <3>1. /\ frozen' = frozen \ {scope} /\ owed' = owed \ {[halt |-> "orders", of |-> scope]}
          /\ UNCHANGED <<hand, router, fired, broken>>
      BY <2>5 DEF Lift
    <3>2. ClaimedKills' /\ KillsToCome'
      BY <3>1 DEF HaltsInv, ClaimedKills, Carried, KillsToCome, Stopped
    <3>3. OwedShape'
      BY <3>1 DEF HaltsInv, OwedShape
    <3>4. ASSUME NEW h \in owed' PROVE h.of \in (IF h.halt = "model" THEN fired' \cup broken' ELSE frozen')
      <4>1. h \in owed /\ h # [halt |-> "orders", of |-> scope]
        BY <3>1
      <4>2. h.halt = "model" \/ h.of # scope
        BY <4>1 DEF HaltsInv, OwedShape
      <4> QED
        BY <3>1, <4>1, <4>2 DEF HaltsInv, HaltsFollowBreaches
    <3>5. HaltsFollowBreaches'
      BY <3>4 DEF HaltsFollowBreaches
    <3> QED
      BY <3>2, <3>3, <3>5 DEF HaltsInv
  <2>6. CASE Restart
    <3>1. DOMAIN Nothing = {}
      BY DEF Nothing
    <3> QED
      BY <2>0, <2>6, <3>1 DEF Restart, HaltsInv, ClaimedKills, Carried, KillsToCome, Stopped
  <2>7. ASSUME UNCHANGED <<hand, router, fired, broken, frozen, owed>> PROVE HaltsInv'
    <3>1. Stopped' = Stopped
      BY <2>7 DEF Stopped
    <3>2. ClaimedKills' /\ KillsToCome'
      BY <2>7 DEF HaltsInv, ClaimedKills, Carried, KillsToCome, Stopped
    <3> QED
      BY <2>0, <2>7, <3>1, <3>2 DEF HaltsInv
  <2> QED
    BY <2>1, <2>2, <2>3, <2>4, <2>5, <2>6, <2>7 DEF EventsNext, Tick, eventsVars
<1>3. HaltsInv => HaltsFollowBreaches
  BY DEF HaltsInv
<1> QED
  BY <1>1, <1>2, <1>3, EventsTypeCorrect, PTL DEF EventsSpec
=============================================================================
