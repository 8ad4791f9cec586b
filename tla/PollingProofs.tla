---------------------------- MODULE PollingProofs ----------------------------
(***************************************************************************)
(* Proofs about the polling loops.                                         *)
(*                                                                         *)
(* DependencyHealth, for any dependencies, policies, threshold and scopes: *)
(* the alarm and the clock agree, and nobody is paged for a dependency     *)
(* that was up within its expected recovery.                               *)
(*                                                                         *)
(* Watchers, for any proposals, forums, issuers and page size: its state   *)
(* has its type.  What a poller keeps of a list is defined by recursion,   *)
(* and what the recursion gives is proved by an induction of its own.      *)
(***************************************************************************)
EXTENDS DependencyHealth, Watchers, FiniteSetTheorems, TLAPS

\* The counts are numbers.
LEMMA Counts == Deps \in Nat /\ Deps > 0 /\ Threshold \in Nat /\ Threshold > 0 /\ MaxAge \in Nat
BY DependencyAssumption

\* A pass goes on to a later dependency or ends.
LEMMA PassGoesOn ==
  ASSUME NEW d \in Dep PROVE AfterProbe(d) \in 0 .. Deps /\ (AfterProbe(d) = 0 \/ AfterProbe(d) = d + 1)
BY Counts DEF AfterProbe, Dep

\* An outage is graded as nothing or as one of the alarms, and as nothing
\* before its clock has moved.
LEMMA LevelKinds ==
  ASSUME NEW d \in Dep, NEW age \in 0 .. MaxAge
  PROVE  /\ Level(d, age) \in Alarms \cup {"none"}
         /\ age = 0 => Level(d, age) = "none"
         /\ Level(d, age) = "CRITICAL" => Severe(d, age)
BY DEF Level, Alarms

\* The clock, once running, shows an age that is counted.
LEMMA AgeType == ASSUME TypeOK, NEW d \in Dep PROVE Age(d) \in 0 .. MaxAge /\ Age(d) # NoOutage
BY Counts DEF TypeOK, Age, NoOutage

\* Each probe of a failing dependency counts, up to the threshold.
LEMMA CountedType == ASSUME TypeOK, NEW d \in Dep PROVE Counted(d) \in 0 .. Threshold
BY Counts DEF TypeOK, Counted

\* Halts of keys keep the registry's type.
LEMMA FireType ==
  ASSUME TypeOK, NEW s, NEW k \in Keys, Fire(s, k) PROVE active' \in [Scope -> SUBSET Keys]
BY DEF TypeOK, Fire

\* What a failing probe does to people, pass and registry.
LEMMA AlertType ==
  ASSUME TypeOK, NEW d \in Dep, NEW level \in Alarms \cup {"none"},
         NEW raises \in BOOLEAN, NEW fires \in BOOLEAN, Alert(d, level, raises, fires)
  PROVE  /\ told' \in [Dep -> Words]
         /\ cursor' \in 0 .. Deps
         /\ active' \in [Scope -> SUBSET Keys]
<1>1. FireFor(d, level, fires) => active' \in [Scope -> SUBSET Keys]
  BY FireType DEF FireFor, Keys, TypeOK
<1>2. CASE level = "none"
  BY <1>2, PassGoesOn DEF Alert, TypeOK
<1>3. CASE level # "none"
  BY <1>1, <1>3, PassGoesOn, Counts DEF Alert, Abandon, TypeOK, Words
<1> QED
  BY <1>2, <1>3

\* The state has its type.
THEOREM TypeCorrect == Spec => []TypeOK
<1>1. ASSUME Init PROVE TypeOK
  <2>1. cursor \in 0 .. Deps /\ fails \in [Dep -> 0 .. Threshold]
    BY <1>1, Counts DEF Init
  <2>2. outage \in [Dep -> 0 .. NoOutage] /\ unseen \in [Dep -> 0 .. MaxUnseen]
    BY <1>1, Counts DEF Init, NoOutage, MaxUnseen
  <2>3. /\ up \in [Dep -> BOOLEAN] /\ active \in [Scope -> SUBSET Keys]
        /\ told \in [Dep -> Words]
    BY <1>1 DEF Init, Words
  <2> QED
    BY <2>1, <2>2, <2>3 DEF TypeOK
<1>2. TypeOK /\ [Next]_vars => TypeOK'
  <2> SUFFICES ASSUME TypeOK, [Next]_vars
               PROVE  TypeOK'
    OBVIOUS
  <2>1. CASE Tick
    <3>1. outage' \in [Dep -> 0 .. NoOutage]
      BY <2>1, Counts DEF Tick, Older, TypeOK, NoOutage
    <3>2. unseen' \in [Dep -> 0 .. MaxUnseen]
      BY <2>1, Counts DEF Tick, TypeOK, MaxUnseen
    <3> QED
      BY <2>1, <3>1, <3>2, Counts DEF Tick, TypeOK
  <2>2. ASSUME NEW d \in Dep, NEW raises \in BOOLEAN, Healthy(d, raises), up' = up PROVE TypeOK'
    <3>1. fails' \in [Dep -> 0 .. Threshold] /\ unseen' \in [Dep -> 0 .. MaxUnseen]
      BY <2>2, Counts DEF Healthy, TypeOK, MaxUnseen
    <3>2. CASE outage[d] = NoOutage
      BY <2>2, <3>1, <3>2, PassGoesOn DEF Healthy, TypeOK
    <3>3. CASE outage[d] # NoOutage
      <4>1. outage' \in [Dep -> 0 .. NoOutage]
        BY <2>2, <3>3, Counts DEF Healthy, Recover, TypeOK, NoOutage
      <4>2. told' \in [Dep -> Words]
        BY <2>2, <3>3 DEF Healthy, Recover, TypeOK, Words
      <4>3. cursor' \in 0 .. Deps /\ active' = active
        BY <2>2, <3>3, PassGoesOn, Counts DEF Healthy, Recover, Abandon
      <4> QED
        BY <2>2, <3>1, <4>1, <4>2, <4>3 DEF TypeOK
    <3> QED
      BY <3>2, <3>3
  <2>3. ASSUME NEW d \in Dep, NEW raises \in BOOLEAN, NEW fires \in BOOLEAN,
               Unreachable(d, raises, fires), up' = up
        PROVE  TypeOK'
    <3>1. fails' \in [Dep -> 0 .. Threshold] /\ unseen' = unseen
      BY <2>3, CountedType DEF Unreachable, TypeOK
    <3>2. CASE OpensClock(Counted(d))
      <4>1. outage' \in [Dep -> 0 .. NoOutage]
        BY <2>3, <3>2, AgeType, Counts DEF Unreachable, TypeOK, NoOutage
      <4>2. Level(d, Age(d)) \in Alarms \cup {"none"} /\ Alert(d, Level(d, Age(d)), raises, fires)
        BY <2>3, <3>2, AgeType, LevelKinds DEF Unreachable
      <4> QED
        BY <2>3, <3>1, <4>1, <4>2, AlertType DEF TypeOK
    <3>3. CASE ~OpensClock(Counted(d))
      BY <2>3, <3>1, <3>3, PassGoesOn DEF Unreachable, TypeOK
    <3> QED
      BY <3>2, <3>3
  <2>4. ASSUME NEW d \in Dep, Turn(d) PROVE TypeOK'
    BY <2>4 DEF Turn, TypeOK
  <2>5. ASSUME NEW s \in Scope, NEW k \in Keys, Clear(s, k) PROVE TypeOK'
    BY <2>5 DEF Clear, Cleared, TypeOK
  <2>6. ASSUME NEW s \in Scope, NEW k \in Keys, KillSwitchAlert(s, k) PROVE TypeOK'
    BY <2>6, FireType DEF KillSwitchAlert, ScopeKey, Keys, TypeOK
  <2>7. CASE Restart
    BY <2>7, Counts DEF Restart, TypeOK, NoOutage, Words
  <2>8. CASE UNCHANGED vars
    BY <2>8 DEF vars, TypeOK
  <2> QED
    BY <2>1, <2>2, <2>3, <2>4, <2>5, <2>6, <2>7, <2>8 DEF Next, ProbeOne, Probe
<1> QED
  BY <1>1, <1>2, PTL DEF Spec

(***************************************************************************)
(* Alarm and clock agree.                                                  *)
(***************************************************************************)
\* A clock that has just started has raised no alarm yet: that is why one
\* may be dropped without a word.
FreshIsQuiet == \A d \in Dep : outage[d] = 0 => told[d] \notin Alarms

AlarmInv == AlarmsAreOpen /\ FreshIsQuiet

\* No step of the loop leaves an alarm standing without its clock.
LEMMA AlarmStep == TypeOK /\ AlarmInv /\ [Next]_vars => AlarmInv'
<1> SUFFICES ASSUME TypeOK, AlarmInv, [Next]_vars
             PROVE  AlarmInv'
  OBVIOUS
<1> USE DEF AlarmInv, AlarmsAreOpen, FreshIsQuiet
<1>1. CASE Tick
  <2>1. \A d \in Dep : outage[d] # NoOutage => outage'[d] # NoOutage
    BY <1>1, Counts DEF Tick, Older, TypeOK, NoOutage
  <2>2. \A d \in Dep : outage'[d] = 0 => outage[d] = 0
    BY <1>1, Counts DEF Tick, Older, TypeOK, NoOutage
  <2> QED
    BY <1>1, <2>1, <2>2 DEF Tick
<1>2. ASSUME NEW d \in Dep, NEW raises \in BOOLEAN, Healthy(d, raises) PROVE AlarmInv'
  <2>1. CASE outage[d] = NoOutage
    BY <1>2, <2>1 DEF Healthy
  <2>2. CASE outage[d] # NoOutage
    <3>1. outage' = [outage EXCEPT ![d] = NoOutage]
      BY <1>2, <2>2 DEF Healthy, Recover
    <3>2. \A e \in Dep : e # d => told'[e] = told[e]
      BY <1>2, <2>2 DEF Healthy, Recover, TypeOK
    <3>3. told'[d] \notin Alarms
      <4>1. CASE TellsRecovery(d, outage[d])
        BY <1>2, <2>2, <4>1 DEF Healthy, Recover, TypeOK, Alarms
      <4>2. CASE ~TellsRecovery(d, outage[d])
        <5>1. outage[d] = 0
          BY <4>2, Counts DEF TellsRecovery, TypeOK, NoOutage
        <5> QED
          BY <1>2, <2>2, <4>2, <5>1 DEF Healthy, Recover
      <4> QED
        BY <4>1, <4>2
    <3>4. \A e \in Dep : outage'[e] = IF e = d THEN NoOutage ELSE outage[e]
      BY <3>1 DEF TypeOK
    <3> QED
      BY <3>2, <3>3, <3>4, Counts DEF NoOutage
  <2> QED
    BY <2>1, <2>2
<1>3. ASSUME NEW d \in Dep, NEW raises \in BOOLEAN, NEW fires \in BOOLEAN, Unreachable(d, raises, fires)
      PROVE  AlarmInv'
  <2>1. CASE OpensClock(Counted(d))
    <3>1. \A e \in Dep : outage'[e] = IF e = d THEN Age(d) ELSE outage[e]
      BY <1>3, <2>1 DEF Unreachable, TypeOK
    <3>2. Age(d) # NoOutage /\ Age(d) \in 0 .. MaxAge
      BY AgeType
    <3>3. \A e \in Dep : e # d => told'[e] = told[e]
      BY <1>3, <2>1 DEF Unreachable, Alert, TypeOK
    <3>4. Age(d) = 0 => told'[d] \notin Alarms
      <4>1. Age(d) = 0 => Level(d, Age(d)) = "none"
        BY <3>2, LevelKinds
      <4>2. Age(d) = 0 => told' = told
        BY <1>3, <2>1, <4>1 DEF Unreachable, Alert
      <4>3. Age(d) = 0 => told[d] \notin Alarms
        BY DEF Age
      <4> QED
        BY <4>2, <4>3
    <3> QED
      BY <3>1, <3>2, <3>3, <3>4
  <2>2. CASE ~OpensClock(Counted(d))
    BY <1>3, <2>2 DEF Unreachable
  <2> QED
    BY <2>1, <2>2
<1>4. ASSUME UNCHANGED <<outage, told>> PROVE AlarmInv'
  BY <1>4
<1>5. (\E d \in Dep : Turn(d)) \/ (\E s \in Scope, k \in Keys : Clear(s, k) \/ KillSwitchAlert(s, k))
        \/ UNCHANGED vars => UNCHANGED <<outage, told>>
  BY DEF Turn, Clear, KillSwitchAlert, vars
<1>6. CASE Restart
  BY <1>6, Counts DEF Restart, Alarms, NoOutage
<1> QED
  BY <1>1, <1>2, <1>3, <1>4, <1>5, <1>6 DEF Next, ProbeOne, Probe

\* As long as an outage is the last people were told, its clock is running.
THEOREM AlarmsOpen == Spec => []AlarmsAreOpen
<1>1. Init => AlarmInv
  BY DEF Init, AlarmInv, AlarmsAreOpen, FreshIsQuiet, Alarms
<1>2. AlarmInv => AlarmsAreOpen
  BY DEF AlarmInv
<1> QED
  BY <1>1, <1>2, TypeCorrect, AlarmStep, PTL DEF Spec

(***************************************************************************)
(* Nobody is paged for a blip.                                             *)
(***************************************************************************)
\* The pass under way has still to probe d.
Due(d) == cursor # 0 /\ cursor <= d

\* Each counted failure stands for an interval without a successful probe,
\* and so does each unit of a clock, which starts with the threshold behind
\* it.
CountInv ==
  \A d \in Dep :
    /\ outage[d] = NoOutage => fails[d] < Threshold
    /\ outage[d] = NoOutage => unseen[d] >= fails[d]
    /\ outage[d] = NoOutage /\ Due(d) => unseen[d] >= fails[d] + 1
    /\ outage[d] # NoOutage => unseen[d] >= outage[d] + Threshold

\* The probe of one dependency makes no other one due.
LEMMA DueLater ==
  ASSUME TypeOK, NEW d \in Dep, cursor = d, cursor' = AfterProbe(d) \/ cursor' = 0
  PROVE  /\ ~Due(d)'
         /\ \A e \in Dep : Due(e)' => Due(e)
<1>1. d \in Nat /\ d > 0 /\ (cursor' = 0 \/ cursor' = d + 1)
  BY PassGoesOn, Counts DEF Dep
<1>2. \A e \in Dep : e \in Nat
  BY Counts DEF Dep
<1> QED
  BY <1>1, <1>2 DEF Due

\* No step lets a count or a clock run ahead of the time the dependency has
\* not been seen.
LEMMA CountStep == TypeOK /\ CountInv /\ [Next]_vars => CountInv'
<1> SUFFICES ASSUME TypeOK, CountInv, [Next]_vars
             PROVE  CountInv'
  OBVIOUS
<1>t. \A d \in Dep : /\ fails[d] \in 0 .. Threshold
                     /\ outage[d] \in 0 .. NoOutage
                     /\ unseen[d] \in 0 .. MaxUnseen
  BY DEF TypeOK
<1>1. CASE Tick
  <2> SUFFICES ASSUME NEW d \in Dep
               PROVE  /\ outage'[d] = NoOutage => /\ fails'[d] < Threshold
                                                  /\ unseen'[d] >= fails'[d] + 1
                      /\ outage'[d] # NoOutage => unseen'[d] >= outage'[d] + Threshold
    <3>1. \A e \in Dep : fails'[e] \in 0 .. Threshold /\ unseen'[e] \in 0 .. MaxUnseen
      BY <1>1, <1>t, Counts DEF Tick, TypeOK, MaxUnseen
    <3> QED
      BY <3>1, Counts DEF CountInv, MaxUnseen
  <2>1. fails'[d] = fails[d] /\ outage'[d] = Older(outage[d])
    BY <1>1 DEF Tick, TypeOK
  <2>2. unseen'[d] = IF unseen[d] < MaxUnseen THEN unseen[d] + 1 ELSE MaxUnseen
    BY <1>1 DEF Tick, TypeOK
  <2>3. CASE outage[d] = NoOutage
    <3>1. outage'[d] = NoOutage
      BY <2>1, <2>3, Counts DEF Older, NoOutage
    <3>2. fails[d] < Threshold /\ unseen[d] >= fails[d]
      BY <2>3 DEF CountInv
    <3> QED
      BY <1>t, <2>1, <2>2, <3>1, <3>2, Counts DEF MaxUnseen
  <2>4. CASE outage[d] # NoOutage
    <3>1. outage'[d] \in 0 .. MaxAge /\ outage'[d] <= outage[d] + 1
      BY <1>t, <2>1, <2>4, Counts DEF Older, NoOutage
    <3>2. unseen[d] >= outage[d] + Threshold
      BY <2>4 DEF CountInv
    <3> QED
      BY <1>t, <2>2, <2>4, <3>1, <3>2, Counts DEF NoOutage, MaxUnseen
  <2> QED
    BY <2>3, <2>4
<1>2. ASSUME NEW d \in Dep, NEW raises \in BOOLEAN, cursor = d, Healthy(d, raises) PROVE CountInv'
  <2>1. cursor' = AfterProbe(d) \/ cursor' = 0
    BY <1>2 DEF Healthy, Recover, Abandon
  <2>2. \A e \in Dep : e # d => fails'[e] = fails[e] /\ unseen'[e] = unseen[e] /\ outage'[e] = outage[e]
    BY <1>2 DEF Healthy, Recover, TypeOK
  <2>3. fails'[d] = 0 /\ unseen'[d] = 0 /\ outage'[d] = NoOutage
    BY <1>2 DEF Healthy, Recover, TypeOK
  <2>4. ~Due(d)' /\ (\A e \in Dep : Due(e)' => Due(e))
    BY <1>2, <2>1, DueLater
  <2> QED
    BY <2>2, <2>3, <2>4, Counts DEF CountInv, NoOutage
<1>3. ASSUME NEW d \in Dep, NEW raises \in BOOLEAN, NEW fires \in BOOLEAN, cursor = d,
             Unreachable(d, raises, fires)
      PROVE  CountInv'
  <2>1. cursor' = AfterProbe(d) \/ cursor' = 0
    BY <1>3 DEF Unreachable, Alert, Abandon
  <2>2. \A e \in Dep : e # d => fails'[e] = fails[e] /\ unseen'[e] = unseen[e] /\ outage'[e] = outage[e]
    BY <1>3 DEF Unreachable, TypeOK
  <2>3. fails'[d] = Counted(d) /\ unseen'[d] = unseen[d]
    BY <1>3 DEF Unreachable, TypeOK
  <2>4. ~Due(d)' /\ (\A e \in Dep : Due(e)' => Due(e))
    BY <1>3, <2>1, DueLater
  <2>5. Due(d)
    BY <1>3, Counts DEF Due, Dep
  <2>6. CASE outage[d] = NoOutage /\ ~OpensClock(Counted(d))
    <3>1. outage'[d] = NoOutage /\ Counted(d) < Threshold
      BY <1>3, <1>t, <2>6, CountedType, Counts DEF Unreachable, OpensClock
    <3>2. unseen[d] >= fails[d] + 1 /\ fails[d] < Threshold
      BY <2>5, <2>6 DEF CountInv
    <3>3. unseen'[d] >= fails'[d]
      BY <1>t, <2>3, <3>2, Counts DEF Counted
    <3> QED
      BY <2>2, <2>3, <2>4, <3>1, <3>3, Counts DEF CountInv, NoOutage
  <2>7. CASE outage[d] = NoOutage /\ OpensClock(Counted(d))
    <3>1. outage'[d] = 0
      BY <1>3, <2>7 DEF Unreachable, Age, TypeOK
    <3>2. unseen[d] >= fails[d] + 1 /\ fails[d] < Threshold
      BY <2>5, <2>7 DEF CountInv
    <3>3. unseen'[d] >= Threshold
      BY <1>t, <2>3, <2>7, <3>2, Counts DEF Counted, OpensClock
    <3> QED
      BY <2>2, <2>4, <3>1, <3>3, Counts DEF CountInv, NoOutage
  <2>8. CASE outage[d] # NoOutage
    <3>1. outage'[d] = outage[d]
      BY <1>3, <2>8 DEF Unreachable, Age, TypeOK
    <3> QED
      BY <2>2, <2>3, <2>4, <2>8, <3>1 DEF CountInv
  <2> QED
    BY <2>6, <2>7, <2>8
<1>4. ASSUME UNCHANGED <<cursor, fails, outage, unseen>> PROVE CountInv'
  BY <1>4 DEF CountInv, Due
<1>5. (\E d \in Dep : Turn(d)) \/ (\E s \in Scope, k \in Keys : Clear(s, k) \/ KillSwitchAlert(s, k))
        \/ UNCHANGED vars => UNCHANGED <<cursor, fails, outage, unseen>>
  BY DEF Turn, Clear, KillSwitchAlert, vars
<1>6. CASE Restart
  BY <1>6, <1>t, Counts DEF Restart, CountInv, Due, NoOutage, MaxUnseen
<1> QED
  BY <1>1, <1>2, <1>3, <1>4, <1>5, <1>6 DEF Next, ProbeOne, Probe

\* The page of a dependency comes from its own clock.
LEMMA PageStep ==
  ASSUME TypeOK, CountInv, [Next]_vars, NEW d \in Dep,
         told[d] # "CRITICAL", told'[d] = "CRITICAL"
  PROVE  \/ unseen'[d] >= Policy[d].expected + Threshold
         \/ unseen'[d] >= Policy[d].hard + Threshold
<1>0. ~Restart
  BY DEF Restart, TypeOK
<1>1. PICK e \in Dep, raises \in BOOLEAN, fires \in BOOLEAN :
        Healthy(e, raises) \/ Unreachable(e, raises, fires)
  BY <1>0 DEF Next, ProbeOne, Probe, Tick, Turn, Clear, KillSwitchAlert, vars
<1>2. ~Healthy(e, raises)
  BY DEF Healthy, Recover, TypeOK
<1>3. e = d /\ OpensClock(Counted(e)) /\ Level(e, Age(e)) = "CRITICAL"
  BY <1>1, <1>2 DEF Unreachable, Alert, TypeOK
<1>4. unseen' = unseen
  BY <1>1, <1>2 DEF Unreachable
<1>5. Age(d) \in 0 .. MaxAge /\ Severe(d, Age(d)) /\ Age(d) # 0
  BY <1>3, AgeType, LevelKinds
<1>6. outage[d] # NoOutage /\ Age(d) = outage[d]
  BY <1>5 DEF Age
<1>7. unseen[d] >= Age(d) + Threshold
  BY <1>6 DEF CountInv
<1>8. Policy[d].expected \in Nat /\ Policy[d].hard \in Nat /\ unseen[d] \in Nat
  BY DependencyAssumption, Counts DEF TypeOK, MaxUnseen
<1>9. Age(d) >= Policy[d].hard \/ Age(d) >= Policy[d].expected
  BY <1>5 DEF Severe
<1> QED
  BY <1>4, <1>5, <1>7, <1>8, <1>9, Counts

\* Nobody is paged, and nothing halted, for a dependency some probe found up
\* within its expected recovery time.
THEOREM NoBlip == Spec => NoBlipPages
<1>1. ASSUME Init PROVE CountInv
  BY <1>1, Counts DEF Init, CountInv, Due
<1>2. TypeOK /\ CountInv /\ [Next]_vars
        => [\A d \in Dep : (told[d] # "CRITICAL" /\ told'[d] = "CRITICAL")
              => \/ unseen'[d] >= Policy[d].expected + Threshold
                 \/ unseen'[d] >= Policy[d].hard + Threshold]_vars
  BY PageStep
<1> QED
  BY <1>1, <1>2, TypeCorrect, CountStep, PTL DEF Spec, NoBlipPages

-----------------------------------------------------------------------------
(* Watchers.                                                               *)

\* A set of numbers that is not empty has a least one: of the intervals from 1 to
\* its members one holds no other.
LEMMA LeastNumber ==
  ASSUME NEW T \in SUBSET Nat, T # {}
  PROVE  \E n \in T : \A m \in T : n <= m
<1> DEFINE Intervals == {1 .. n : n \in T}
           R == StrictSubsetOrdering(Nat)
<1>1. IsWellFoundedOn(R, FiniteSubsetsOf(Nat))
  BY FS_StrictSubsetOrderingWellFounded
<1>2. Intervals \subseteq FiniteSubsetsOf(Nat)
  BY FS_Interval DEF FiniteSubsetsOf
<1>3. Intervals # {}
  OBVIOUS
<1> HIDE DEF R
<1>4. PICK X \in Intervals : \A Y \in Intervals : <<Y, X>> \notin R
  BY <1>1, <1>2, <1>3, WFMin
<1>5. PICK n \in T : X = 1 .. n
  BY <1>4
<1>6. ASSUME NEW m \in T, m < n PROVE FALSE
  <2>1. 1 .. m \in Intervals /\ 1 .. m \subseteq X /\ n \in X /\ n \notin 1 .. m
    BY <1>5, <1>6
  <2>2. X \subseteq Nat /\ 1 .. m \subseteq Nat
    BY <1>5
  <2>3. <<1 .. m, X>> \in R
    BY <2>1, <2>2 DEF R, StrictSubsetOrdering
  <2> QED
    BY <1>4, <2>1, <2>3
<1> QED
  BY <1>5, <1>6

\* Induction over the numbers up to a bound: what holds is given as the set T of
\* those it holds of.
LEMMA InductionUpTo ==
  ASSUME NEW top \in Nat, NEW T, 0 \in T, \A n \in 0 .. top - 1 : n \in T => n + 1 \in T
  PROVE  \A n \in 0 .. top : n \in T
<1> DEFINE U == {n \in 0 .. top : n \notin T}
<1> SUFFICES ASSUME U # {} PROVE FALSE
  OBVIOUS
<1>1. U \in SUBSET Nat
  OBVIOUS
<1> HIDE DEF U
<1>2. PICK n \in U : \A m \in U : n <= m
  BY <1>1, LeastNumber
<1>3. /\ n \in 0 .. top /\ n \notin T
      /\ \A m \in 0 .. top : m \notin T => n <= m
  BY <1>2 DEF U
<1>4. n # 0 /\ n - 1 \in 0 .. top - 1 /\ n - 1 \in 0 .. top
  BY <1>3
<1>5. n - 1 \in T
  BY <1>3, <1>4
<1>6. (n - 1) + 1 \in T
  BY <1>4, <1>5
<1> QED
  BY <1>3, <1>4, <1>6

\* What is kept of a list is on it, and wanted.  The recursion has a solution
\* (Reached, by induction), and the list it has kept so far is one of those.
LEMMA OnlyKeeps ==
  ASSUME NEW S, NEW list \in Seq(S), NEW wanted
  PROVE  Only(list, wanted) \in Seq(S \cap wanted)
<1> DEFINE top == Len(list)
           Step(g, n) == IF n = 0 THEN <<>>
                         ELSE IF list[n] \in wanted THEN Append(g[n - 1], list[n]) ELSE g[n - 1]
           Keeps(g, n) == \A i \in 0 .. n : g[i] = Step(g, i)
           W == Seq(S \cap wanted)
           Reached == {n \in 0 .. top : \E g \in [0 .. n -> W] : Keeps(g, n)}
           kept == CHOOSE g : g = [n \in 0 .. top |-> Step(g, n)]
<1>0. top \in Nat /\ \A i \in 1 .. top : list[i] \in S
  OBVIOUS
<1>1. 0 \in Reached
  <2>1. [i \in 0 .. 0 |-> <<>>] \in [0 .. 0 -> W] /\ Keeps([i \in 0 .. 0 |-> <<>>], 0)
    OBVIOUS
  <2> HIDE DEF Keeps, W
  <2>2. \E g \in [0 .. 0 -> W] : Keeps(g, 0)
    BY <2>1
  <2> QED
    BY <1>0, <2>2
<1>2. ASSUME NEW n \in 0 .. top - 1, n \in Reached PROVE n + 1 \in Reached
  <2>1. PICK g \in [0 .. n -> W] : Keeps(g, n)
    BY <1>2
  <2>2. n \in Nat /\ n + 1 \in 1 .. top /\ list[n + 1] \in S /\ n \in 0 .. n /\ g[n] \in W
    BY <1>0, <2>1
  <2> DEFINE h == [i \in 0 .. n + 1 |-> IF i = n + 1 THEN Step(g, n + 1) ELSE g[i]]
  <2>3. Step(g, n + 1) \in W
    BY <2>2
  <2>4. h \in [0 .. n + 1 -> W]
    BY <2>1, <2>2, <2>3
  <2>5. ASSUME NEW i \in 0 .. n + 1 PROVE h[i] = Step(h, i)
    <3>1. CASE i = n + 1
      BY <2>2, <3>1
    <3>2. CASE i # n + 1
      <4>1. i \in 0 .. n /\ h[i] = g[i] /\ (i # 0 => i - 1 \in 0 .. n /\ h[i - 1] = g[i - 1])
        BY <2>2, <3>2
      <4> QED
        BY <2>1, <4>1
    <3> QED
      BY <3>1, <3>2
  <2>6. Keeps(h, n + 1)
    BY <2>5
  <2> HIDE DEF Keeps, W, h
  <2>7. \E k \in [0 .. n + 1 -> W] : Keeps(k, n + 1)
    BY <2>4, <2>6
  <2>8. n + 1 \in 0 .. top
    BY <2>2
  <2> QED
    BY <2>7, <2>8
<1>3. \A n \in 0 .. top : n \in Reached
  <2> HIDE DEF Reached
  <2> QED
    BY <1>0, <1>1, <1>2, InductionUpTo
<1>4. PICK g \in [0 .. top -> W] : Keeps(g, top)
  <2> HIDE DEF Keeps, W
  <2>1. top \in 0 .. top
    BY <1>0
  <2> QED
    BY <1>3, <2>1
<1>5. g = [n \in 0 .. top |-> Step(g, n)]
  BY <1>4
<1>6. kept = [n \in 0 .. top |-> Step(kept, n)]
  BY <1>5
<1>7. Only(list, wanted) = kept[top]
  BY DEF Only
<1> HIDE DEF kept
<1>8. kept[0] \in W
  BY <1>0, <1>6
<1>9. ASSUME NEW n \in 0 .. top - 1, kept[n] \in W PROVE n + 1 \in 0 .. top /\ kept[n + 1] \in W
  <2>1. n + 1 \in 0 .. top /\ n + 1 # 0 /\ list[n + 1] \in S /\ (n + 1) - 1 = n
    BY <1>0
  <2>2. kept[n + 1] = Step(kept, n + 1)
    <3> HIDE DEF Step
    <3> QED
      BY <1>6, <2>1
  <2> QED
    BY <1>9, <2>1, <2>2
<1>10. \A n \in 0 .. top : kept[n] \in W
  <2> DEFINE K == {i \in 0 .. top : kept[i] \in W}
  <2>1. 0 \in K /\ \A n \in 0 .. top - 1 : n \in K => n + 1 \in K
    BY <1>0, <1>8, <1>9
  <2> HIDE DEF K
  <2>2. \A n \in 0 .. top : n \in K
    BY <1>0, <2>1, InductionUpTo
  <2> QED
    BY <2>2 DEF K
<1> QED
  BY <1>0, <1>7, <1>10

\* The first elements of a list are on it.
LEMMA PrefixOnList ==
  ASSUME NEW S, NEW list \in Seq(S), NEW n \in 0 .. Len(list)
  PROVE  SubSeq(list, 1, n) \in Seq(S) /\ ToSet(SubSeq(list, 1, n)) \subseteq ToSet(list)
<1>1. /\ SubSeq(list, 1, n) \in Seq(S) /\ DOMAIN SubSeq(list, 1, n) = 1 .. n
      /\ \A i \in 1 .. n : SubSeq(list, 1, n)[i] = list[i] /\ i \in DOMAIN list
  OBVIOUS
<1> QED
  BY <1>1 DEF ToSet

\* What is posted, and when.
Postings == [proposal : Proposals, time : 0 .. MaxTime]

\* A forum answers with postings, and its poller makes risky proposals of them.
LEMMA MatchingType ==
  ASSUME posted \in Seq(Postings), NEW f PROVE Matching(f) \in Seq(Risky)
<1>1. Reverse(posted) \in Seq(Postings)
  BY DEF Reverse
<1>2. Fresh(f, Reverse(posted)) \in Seq(Postings)
  <2>1. \A wanted : Seq(Postings \cap wanted) \subseteq Seq(Postings)
    OBVIOUS
  <2> QED
    BY <1>1, <2>1, OnlyKeeps DEF Fresh
<1>3. Page(f) \in Seq(Postings)
  <2>1. PICK list \in Seq(Postings) : Page(f) = FirstOf(list)
    BY <1>2 DEF Page
  <2>2. (IF Len(list) < PageSize THEN Len(list) ELSE PageSize) \in 0 .. Len(list)
    BY <2>1, WatcherAssumption
  <2> QED
    BY <2>1, <2>2, PrefixOnList DEF FirstOf
<1> DEFINE wanted == {e \in ToSet(Page(f)) : Matches(e)}
           page == Only(Page(f), wanted)
<1>4. page \in Seq(Postings \cap wanted)
  BY <1>3, OnlyKeeps
<1>5. \A e \in Postings \cap wanted : e.proposal \in Risky
  BY DEF Matches
<1>6. Matching(f) = [i \in DOMAIN page |-> page[i].proposal]
  BY DEF Matching
<1> HIDE DEF page, wanted
<1>7. \A i \in DOMAIN page : page[i] \in Postings \cap wanted
  BY <1>4
<1>8. DOMAIN page = 1 .. Len(page) /\ Len(page) \in Nat
  BY <1>4
<1> QED
  BY <1>5, <1>6, <1>7, <1>8

\* A list of some of a set's elements is a list of its elements.
LEMMA WiderList == ASSUME NEW S, NEW T, S \subseteq T PROVE Seq(S) \subseteq Seq(T)
<1>1. ASSUME NEW list \in Seq(S) PROVE list \in Seq(T)
  <2>1. /\ Len(list) \in Nat /\ DOMAIN list = 1 .. Len(list)
        /\ list = [i \in 1 .. Len(list) |-> list[i]] /\ \A i \in 1 .. Len(list) : list[i] \in T
    OBVIOUS
  <2>2. list \in [1 .. Len(list) -> T]
    BY <2>1
  <2> QED
    BY <2>1, <2>2
<1> QED
  BY <1>1

\* The steps of a loop, of whatever it is that it finds.
LEMMA LoopSteps ==
  ASSUME NEW sources \in Nat \ {0}, NEW Item, NEW loop \in Loop(sources, Item)
  PROVE  /\ \A answer \in Seq(Item) :
              loop.asks <= sources => Asked(loop, answer) \in Loop(sources, Item)
         /\ \A batch, n : Emitted(loop, batch, n) \in Loop(sources, Item)
         /\ Woken(loop) \in Loop(sources, Item)
         /\ [loop EXCEPT !.stop = TRUE] \in Loop(sources, Item)
         /\ loop.starts < MaxStarts => Run(loop) \in Loop(sources, Item)
<1> USE DEF Loop
<1>0. /\ loop = [at |-> loop.at, asks |-> loop.asks, found |-> loop.found,
                  stop |-> loop.stop, starts |-> loop.starts]
      /\ loop.asks \in 1 .. sources + 1 /\ loop.found \in Seq(Item) /\ <<>> \in Seq(Item)
      /\ loop.stop \in BOOLEAN /\ loop.starts \in 0 .. MaxStarts
  OBVIOUS
<1>1. ASSUME NEW answer \in Seq(Item), loop.asks <= sources
      PROVE  Asked(loop, answer) \in Loop(sources, Item)
  <2>1. loop.asks + 1 \in 1 .. sources + 1
    BY <1>0, <1>1
  <2>2. loop.found \o answer \in Seq(Item)
    BY <1>0
  <2> DEFINE found == loop.found \o answer
             asks == loop.asks + 1
  <2>3. Asked(loop, answer) = [loop EXCEPT !.asks = asks, !.found = found]
    BY DEF Asked
  <2> HIDE DEF found, asks
  <2>4. found \in Seq(Item) /\ asks \in 1 .. sources + 1
    BY <2>1, <2>2 DEF found, asks
  <2> QED
    BY <2>3, <2>4
<1>2. ASSUME NEW batch, NEW n PROVE Emitted(loop, batch, n) \in Loop(sources, Item)
  <2> DEFINE at == CASE n < Len(batch) -> "dead"
                     [] n = Len(batch) /\ loop.stop -> "off"
                     [] OTHER -> "asleep"
  <2>1. at \in {"off", "polling", "asleep", "dead"}
    OBVIOUS
  <2>2. Emitted(loop, batch, n) = [loop EXCEPT !.asks = 1, !.found = <<>>, !.at = at]
    BY DEF Emitted
  <2> HIDE DEF at
  <2>3. 1 \in 1 .. sources + 1
    OBVIOUS
  <2> QED
    BY <1>0, <2>1, <2>2, <2>3
<1>3. Woken(loop) \in Loop(sources, Item)
  BY DEF Woken
<1>4. [loop EXCEPT !.stop = TRUE] \in Loop(sources, Item)
  OBVIOUS
<1>5. ASSUME loop.starts < MaxStarts PROVE Run(loop) \in Loop(sources, Item)
  <2>1. loop.starts + 1 \in 0 .. MaxStarts /\ 1 \in 1 .. sources + 1
    BY <1>0, <1>5, WatcherAssumption
  <2> DEFINE starts == loop.starts + 1
  <2>2. Run(loop) = [NotRun EXCEPT !.at = "polling", !.starts = starts]
    BY DEF Run
  <2> HIDE DEF starts
  <2>3. Run(loop) = [at |-> "polling", asks |-> 1, found |-> <<>>, stop |-> FALSE,
                     starts |-> starts]
    BY <2>2 DEF NotRun
  <2>4. starts \in 0 .. MaxStarts
    BY <2>1 DEF starts
  <2> QED
    BY <1>0, <2>1, <2>3, <2>4
<1> QED
  BY <1>1, <1>2, <1>3, <1>4, <1>5

\* What the issuer loop has found, in the poll under way, are issuers that halted.
FoundHalted == pauses.found \in Seq(halted)

\* The state has its type; in particular only what the watcher has seen is told
\* of, only risky proposals are seen, and a halt is heard of only once there is one.
THEOREM WatchersTypeCorrect == WatchersSpec => []WatchersTypeOK
<1> DEFINE Inv == WatchersTypeOK /\ FoundHalted
<1>0. /\ Issuers \in Nat \ {0} /\ 2 \in Nat \ {0} /\ MaxStarts \in Nat /\ MaxTime \in Nat
      /\ Risky \subseteq Proposals
  BY WatcherAssumption
<1>1. ASSUME WatchersInit PROVE Inv
  BY <1>0, <1>1 DEF WatchersInit, WatchersTypeOK, FoundHalted, NotRun, Loop
<1>2. Inv /\ [WatchersNext]_watchersVars => Inv'
  <2> SUFFICES ASSUME WatchersTypeOK, FoundHalted, [WatchersNext]_watchersVars PROVE Inv'
    OBVIOUS
  <2> USE <1>0
  <2>0. /\ forums \in Loop(2, Risky) /\ pauses \in Loop(Issuers, 1 .. Issuers)
        /\ posted \in Seq(Postings) /\ now \in 0 .. MaxTime
    BY DEF WatchersTypeOK, Postings
  <2>1. ASSUME NEW p \in Proposals, Post(p) PROVE Inv'
    BY <2>1 DEF Post, WatchersTypeOK, FoundHalted
  <2>2. ASSUME NEW i \in 1 .. Issuers, Halt(i) PROVE Inv'
    BY <2>2 DEF Halt, WatchersTypeOK, FoundHalted
  <2>3. CASE TimePasses
    BY <2>3 DEF TimePasses, WatchersTypeOK, FoundHalted
  <2>4. CASE AskForum
    <3>1. PICK answer \in {<<>>, Matching(forums.asks)} : forums' = Asked(forums, answer)
      BY <2>4 DEF AskForum
    <3>2. answer \in Seq(Risky)
      <4>1. <<>> \in Seq(Risky)
        OBVIOUS
      <4>2. Matching(forums.asks) \in Seq(Risky)
        BY <2>0, MatchingType
      <4> QED
        BY <3>1, <4>1, <4>2
    <3>3. forums' \in Loop(2, Risky)
      BY <2>0, <2>4, <3>1, <3>2, LoopSteps DEF AskForum
    <3> QED
      BY <2>4, <3>3 DEF AskForum, WatchersTypeOK, FoundHalted
  <2>5. CASE TellProposals
    <3>1. PICK n \in 0 .. Len(New) : /\ forums' = Emitted(forums, New, n)
                                     /\ taken' = taken \cup ToSet(SubSeq(New, 1, n))
      BY <2>5 DEF TellProposals
    <3>2. New \in Seq(Risky)
      <4>1. forums.found \in Seq(Risky)
        BY <2>0 DEF Loop
      <4>2. New \in Seq(Risky \cap (ToSet(forums.found) \ known))
        BY <4>1, OnlyKeeps DEF New
      <4> QED
        BY <4>2
    <3>3. forums' \in Loop(2, Risky)
      BY <2>0, <3>1, LoopSteps
    <3>4. ToSet(New) \subseteq Risky /\ ToSet(SubSeq(New, 1, n)) \subseteq ToSet(New)
      BY <3>2, PrefixOnList DEF ToSet
    <3>5. known' = known \cup ToSet(New) /\ UNCHANGED <<now, posted, pauses, halted, heard>>
      BY <2>5 DEF TellProposals, Marked
    <3> QED
      BY <3>1, <3>3, <3>4, <3>5 DEF WatchersTypeOK, FoundHalted
  <2>6. CASE Watch
    <3>1. Starts(forums) => forums.starts < MaxStarts
      BY <2>0 DEF Starts, Loop
    <3>2. forums' \in Loop(2, Risky)
      BY <2>0, <2>6, <3>1, LoopSteps DEF Watch
    <3> QED
      BY <2>6, <3>2 DEF Watch, WatchersTypeOK, FoundHalted
  <2>7. CASE AskIssuer
    <3>1. PICK answer \in {<<>>, Reading(pauses.asks)} : pauses' = Asked(pauses, answer)
      BY <2>7 DEF AskIssuer
    <3>2. answer \in Seq(halted)
      <4>1. <<>> \in Seq(halted)
        OBVIOUS
      <4>2. ASSUME pauses.asks \in halted PROVE <<pauses.asks>> \in Seq(halted)
        BY <4>2
      <4> QED
        BY <3>1, <4>1, <4>2 DEF Reading
    <3>3. halted \subseteq 1 .. Issuers
      BY DEF WatchersTypeOK
    <3>4. answer \in Seq(1 .. Issuers)
      BY <3>2, <3>3, WiderList
    <3>5. pauses' \in Loop(Issuers, 1 .. Issuers)
      BY <2>0, <2>7, <3>1, <3>4, LoopSteps DEF AskIssuer
    <3>6. pauses'.found = pauses.found \o answer
      BY <2>0, <3>1 DEF Asked, Loop
    <3>7. pauses'.found \in Seq(halted)
      BY <3>2, <3>6 DEF FoundHalted
    <3> QED
      BY <2>7, <3>5, <3>7 DEF AskIssuer, WatchersTypeOK, FoundHalted
  <2>8. CASE TellPauses
    <3>1. PICK n \in 0 .. Len(pauses.found) :
            /\ pauses' = Emitted(pauses, pauses.found, n)
            /\ heard' = heard \cup ToSet(SubSeq(pauses.found, 1, n))
      BY <2>8 DEF TellPauses
    <3>2. ToSet(SubSeq(pauses.found, 1, n)) \subseteq halted
      <4>1. ToSet(pauses.found) \subseteq halted
        BY DEF FoundHalted, ToSet
      <4> QED
        BY <4>1, PrefixOnList DEF FoundHalted
    <3>3. pauses' \in Loop(Issuers, 1 .. Issuers)
      BY <2>0, <3>1, LoopSteps
    <3>4. pauses'.found = <<>>
      BY <2>0, <3>1 DEF Emitted, Loop
    <3>5. UNCHANGED <<now, posted, forums, known, taken, halted>>
      BY <2>8 DEF TellPauses
    <3>6. FoundHalted'
      <4>1. <<>> \in Seq(halted)
        OBVIOUS
      <4> QED
        BY <3>4, <3>5, <4>1 DEF FoundHalted
    <3>7. heard' \subseteq halted'
      BY <3>1, <3>2, <3>5 DEF WatchersTypeOK
    <3> QED
      BY <3>3, <3>5, <3>6, <3>7 DEF WatchersTypeOK
  <2>9. CASE WatchIssuers
    <3>1. Starts(pauses) => pauses.starts < MaxStarts
      BY <2>0 DEF Starts, Loop
    <3>2. UNCHANGED <<now, posted, forums, known, taken, halted, heard>>
      BY <2>9 DEF WatchIssuers
    <3>3. \/ Starts(pauses) /\ pauses' = Run(pauses)
          \/ pauses' = [pauses EXCEPT !.stop = TRUE]
          \/ pauses' = Woken(pauses)
      BY <2>9, Zenon DEF WatchIssuers
    <3>4. pauses' \in Loop(Issuers, 1 .. Issuers)
      <4>1. CASE Starts(pauses) /\ pauses' = Run(pauses)
        BY <2>0, <3>1, <4>1, LoopSteps
      <4>2. CASE pauses' = [pauses EXCEPT !.stop = TRUE]
        BY <2>0, <4>2, LoopSteps
      <4>3. CASE pauses' = Woken(pauses)
        BY <2>0, <4>3, LoopSteps
      <4> QED
        BY <3>3, <4>1, <4>2, <4>3
    <3>5. pauses'.found = pauses.found \/ pauses'.found = <<>>
      BY <2>0, <3>3 DEF Run, NotRun, Woken, Loop
    <3>6. FoundHalted'
      <4>1. <<>> \in Seq(halted)
        OBVIOUS
      <4> QED
        BY <3>2, <3>5, <4>1 DEF FoundHalted
    <3> QED
      BY <3>2, <3>4, <3>6 DEF WatchersTypeOK
  <2>10. CASE UNCHANGED watchersVars
    BY <2>10 DEF watchersVars, WatchersTypeOK, FoundHalted
  <2> QED
    BY <2>1, <2>2, <2>3, <2>4, <2>5, <2>6, <2>7, <2>8, <2>9, <2>10 DEF WatchersNext
<1> QED
  BY <1>1, <1>2, PTL DEF WatchersSpec
=============================================================================
