------------------------- MODULE OrchestratorProofs -------------------------
(***************************************************************************)
(* Proofs about what stands between a finding and an instruction to the    *)
(* orchestrator: the gate in front of it (DispatchGate) and the budget of  *)
(* relaunches behind the gate (RelaunchBudget), two specifications that    *)
(* share no variable.                                                      *)
(*                                                                         *)
(* The gate, for any windows, cadences, call times and numbers of attempts *)
(* and crashes: what GitHub is told twice, how close two loud calls come,  *)
(* and that a name with a cooldown never comes to the threshold.           *)
(*                                                                         *)
(* The budget, for any number of revisions, VMs and days.                  *)
(* OvershootBounded is not inductive: what keeps the claims of a day low   *)
(* is that a check which has counted, and not claimed yet, counted when    *)
(* there was room.  The invariant charges the budget for these checks as   *)
(* for claims.                                                             *)
(***************************************************************************)
EXTENDS DispatchGate, RelaunchBudget, FiniteSetTheorems, TLAPS

-----------------------------------------------------------------------------
(* The gate.                                                               *)

USE LadderAssumption, GateAssumption

\* A second is no longer than a window, so its fractions are ages.
LEMMA FractionsAreAges ==
    /\ 0 \in Fractions
    /\ \A f \in Fractions : f \in Ages /\ f <= Second - 1 /\ NextFraction(f) \in Fractions
BY DEF Fractions, NextFraction, Ages

\* An age stays an age as time passes, and does not shrink.
LEMMA AgedGrows ==
    /\ \A age \in Ages : Aged(age) \in Ages /\ Aged(age) # NoAge
                         /\ Aged(age) = IF age > Window THEN age ELSE age + 1
    /\ \A age \in Ages \cup {NoAge} : Aged(age) \in Ages \cup {NoAge} /\ (Aged(age) = NoAge <=> age = NoAge)
BY DEF Aged, Ages, NoAge

\* An entry of the deduplicator keeps its type.
LEMMA KeptIsAge == \A age \in Ages \cup {NoAge} : Kept(age) \in Ages \cup {NoAge}
BY DEF Kept, DedupWindow, Ages, NoAge

\* What is read is a record, of an identity never seen too.
LEMMA StoredIsRecord ==
    ASSUME ladder \in Record, fraction \in Fractions
    PROVE  /\ Stored \in Record
           /\ ladder.count > 0 => Stored = ladder
           /\ ladder.count = 0 => Stored = Bootstrap(fraction)
<1>1. Bootstrap(fraction) \in Record
  BY FractionsAreAges DEF Bootstrap, Record
<1> QED
  BY <1>1 DEF Stored, Record

\* One occurrence turns a record into a record that counts something.
LEMMA AdvancedIsCounted ==
    ASSUME NEW r \in Record, NEW f \in Fractions
    PROVE  Advanced(r, f) \in Record /\ Advanced(r, f).count > 0
<1>1. Counted(r) \in 0..Threshold /\ Counted(r) > 0
  BY DEF Counted, AtMost, Record
<1>2. /\ AtMost(r.count + 1, Threshold) \in 0..Threshold /\ AtMost(r.count + 1, Threshold) > 0
      /\ AtMost(r.rung + 1, MaxRung) \in 0..MaxRung
  BY DEF AtMost, Record
<1>3. f \in Ages
  BY FractionsAreAges
<1> QED
  BY <1>1, <1>2, <1>3 DEF Advanced, Record

\* So does the passing of time, which changes only its ages.
LEMMA LaterIsRecord ==
    ASSUME NEW r \in Record
    PROVE  /\ OneTickLater(r) \in Record
           /\ OneTickLater(r).count = r.count /\ OneTickLater(r).state = r.state
           /\ OneTickLater(r).escalated = Aged(r.escalated)
           /\ OneTickLater(r).first = Aged(r.first)
<1>1. r.first \in Ages /\ r.escalated \in Ages \cup {NoAge}
  BY DEF Record
<1>2. Aged(r.first) \in Ages /\ Aged(r.escalated) \in Ages \cup {NoAge}
  BY <1>1, AgedGrows
<1> QED
  BY <1>2 DEF OneTickLater, Record

\* Tick leaves a ladder record a record.
LEMMA LadderTickType == TypeOK /\ Tick => ladder' \in Record
BY LaterIsRecord DEF TypeOK, Tick

\* What can be found is a finding.
LEMMA FoundIsFinding == Found \subseteq Findings /\ FirstFinding \in Findings
BY DEF Found

\* A step of the gate leaves a finding in hand.
LEMMA HandType ==
    ASSUME finding \in Findings, NEW step, GoesTo(step)
    PROVE  finding' \in Findings /\ pc' = step
BY FoundIsFinding DEF GoesTo

\* The state has its type.
THEOREM TypeCorrect == Spec => []TypeOK
<1>1. ASSUME Init PROVE TypeOK
  <2>1. ladder \in Record /\ fraction \in Fractions
    BY <1>1, FractionsAreAges DEF Init, Bootstrap, Record, Ages
  <2>2. seen \in [Findings -> Ages \cup {NoAge}] /\ cooldown \in [Findings -> Ages \cup {NoAge}]
    BY ONLY <1>1 DEF Init
  <2>3. finding \in Findings /\ lastSent \in Attempts
    <3>1. FirstFinding.attempted = 0
      BY DEF FirstFinding
    <3> QED
      BY <1>1, <3>1, FoundIsFinding DEF Init, Attempts
  <2>4. sinceSweep \in 0..Cadence /\ crashes \in 0..MaxCrashes /\ kind \in Kind
    BY <1>1 DEF Init
  <2> QED
    BY ONLY <1>1, <2>1, <2>2, <2>3, <2>4 DEF Init, TypeOK
<1>2. TypeOK /\ [Next]_vars => TypeOK'
  <2> SUFFICES ASSUME TypeOK, [Next]_vars PROVE TypeOK'
    OBVIOUS
  <2> USE DEF clockVars, dedupVars, historyVars
  <2>1. CASE Appear \/ Resolve
    BY <2>1 DEF Appear, Resolve, TypeOK
  <2>3. CASE Sweep
    <3>1. /\ seen' \in [Findings -> Ages \cup {NoAge}] /\ cooldown' \in [Findings -> Ages \cup {NoAge}]
          /\ pc' \in {"idle", "ladder", "checkpoint", "dispatch"} /\ finding' \in Findings
      <4>1. ASSUME NEW f \in Found,
                   seen' = [seen EXCEPT ![f] = 0],
                   cooldown' = IF kind.recurring THEN [cooldown EXCEPT ![f] = 0] ELSE cooldown,
                   pc' = "ladder", finding' = f
            PROVE  /\ seen' \in [Findings -> Ages \cup {NoAge}] /\ cooldown' \in [Findings -> Ages \cup {NoAge}]
                   /\ pc' \in {"idle", "ladder", "checkpoint", "dispatch"} /\ finding' \in Findings
        <5>1. f \in Findings /\ 0 \in Ages
          BY FoundIsFinding DEF Ages
        <5> QED
          BY <4>1, <5>1 DEF TypeOK
      <4>2. CASE UNCHANGED <<dedupVars, pc, finding>>
        BY <4>2 DEF TypeOK
      <4> QED
        BY <2>3, <4>1, <4>2 DEF Sweep
    <3> QED
      BY <2>3, <3>1 DEF Sweep, TypeOK
  <2>4. CASE Count
    <3>1. ladder' \in Record
      BY <2>4, StoredIsRecord, AdvancedIsCounted DEF Count, TypeOK
    <3>2. finding' \in Findings /\ pc' \in {"idle", "checkpoint", "dispatch"}
      BY <2>4, HandType DEF Count, TypeOK
    <3> QED
      BY <2>4, <3>1, <3>2 DEF Count, TypeOK
  <2>5. CASE Checkpoint
    <3>1. finding.attempted \in Attempts /\ movedBack' \in BOOLEAN
      BY <2>5 DEF TypeOK, Attempts, Checkpoint
    <3>2. finding' \in Findings /\ pc' \in {"idle", "dispatch"}
      BY <2>5, HandType DEF Checkpoint, TypeOK
    <3> QED
      BY <2>5, <3>1, <3>2 DEF Checkpoint, TypeOK
  <2>6. ASSUME NEW accepted \in BOOLEAN, Dispatch(accepted) PROVE TypeOK'
    <3>1. finding.attempted \in Attempts /\ 0 \in Ages
      BY DEF TypeOK, Attempts, Ages
    <3>2. token' \in {"found", "missing"}
      BY <2>6 DEF Dispatch, Probed, TypeOK
    <3>3. served' \in BOOLEAN /\ movedBack' \in BOOLEAN /\ lastSent' \in Attempts
      BY <2>6, <3>1 DEF Dispatch, TypeOK, Tells
    <3>4. finding' \in Findings /\ pc' = "idle"
      BY <2>6, HandType DEF Dispatch, TypeOK
    <3> QED
      BY <2>6, <3>1, <3>2, <3>3, <3>4 DEF Dispatch, TypeOK
  <2>7. CASE Crash
    <3>1. finding' \in Findings /\ pc' = "idle"
      BY <2>7, HandType DEF Crash, TypeOK
    <3> QED
      BY <2>7, <3>1 DEF Crash, TypeOK
  <2>8. CASE Tick
    <3>1. seen' \in [Findings -> Ages \cup {NoAge}] /\ cooldown' \in [Findings -> Ages \cup {NoAge}]
      BY <2>8, KeptIsAge DEF Tick, TypeOK
    <3>2. sinceLoud' \in Ages \cup {NoAge} /\ ladder' \in Record
      BY <2>8, AgedGrows, LadderTickType DEF Tick, TypeOK
    <3>3. sinceSweep' \in 0..Cadence /\ fraction' \in Fractions
      BY <2>8, FractionsAreAges DEF Tick, TypeOK
    <3> QED
      BY <2>8, <3>1, <3>2, <3>3 DEF Tick, TypeOK
  <2>9. CASE UNCHANGED vars
    BY <2>9 DEF vars, TypeOK
  <2> QED
    BY <2>1, <2>3, <2>4, <2>5, <2>6, <2>7, <2>8, <2>9 DEF Next, Sends, Refused
<1> QED
  BY <1>1, <1>2, PTL DEF Spec

(***************************************************************************)
(* What GitHub is told twice.                                              *)
(***************************************************************************)
\* Until it is put back, the checkpoint stands at the last attempt GitHub was told
\* of or after it; an attempt about to be told was new to it.
ActivityInv ==
    /\ pc = "checkpoint" => kind.tupleShaped
    /\ ~kind.tupleShaped => finding = FirstFinding
    /\ lastSent > 0 /\ ~movedBack => checkpoint >= lastSent
    /\ pc = "dispatch" /\ kind.tupleShaped /\ finding.attempted > 0 =>
        /\ checkpoint = finding.attempted
        /\ finding.attempted > lastSent \/ movedBack

\* The numbers among the state.
LEMMA Numbers ==
    ASSUME TypeOK
    PROVE  finding.attempted \in Nat /\ checkpoint \in Nat \cup {-1} /\ lastSent \in Nat
<1>1. \A f \in Findings : f.attempted \in Nat
  BY DEF Finding
<1> QED
  BY <1>1 DEF TypeOK, Attempts, NoCheckpoint

\* A step that leaves the checkpoint and GitHub alone, and lets go of the finding
\* or keeps it, keeps it.
LEMMA ActivityKept ==
    ASSUME ActivityInv, UNCHANGED <<kind, checkpoint, lastSent, movedBack>>,
           finding' = finding \/ finding' = FirstFinding,
           pc' = "checkpoint" => pc = "checkpoint" \/ kind.tupleShaped,
           kind.tupleShaped /\ pc' = "dispatch" => pc = "dispatch"
    PROVE  ActivityInv'
<1>1. FirstFinding.attempted = 0
  BY DEF FirstFinding
<1> QED
  BY <1>1 DEF ActivityInv

\* No step of the gate breaks it.
LEMMA ActivityStep == TypeOK /\ ActivityInv /\ [Next]_vars => ActivityInv'
<1> SUFFICES ASSUME TypeOK, ActivityInv, [Next]_vars PROVE ActivityInv'
  OBVIOUS
<1> USE DEF clockVars, dedupVars, historyVars
<1>1. CASE Appear \/ Resolve \/ Count \/ Crash \/ Tick \/ UNCHANGED vars
  <2>1. UNCHANGED <<kind, checkpoint, lastSent, movedBack>>
    BY <1>1 DEF Appear, Resolve, Count, Crash, Tick, vars
  <2>2. finding' = finding \/ finding' = FirstFinding
    BY <1>1 DEF Appear, Resolve, Count, Crash, Tick, vars, GoesTo
  <2>3. /\ pc' = "checkpoint" => pc = "checkpoint" \/ kind.tupleShaped
        /\ kind.tupleShaped /\ pc' = "dispatch" => pc = "dispatch"
    BY <1>1 DEF Appear, Resolve, Count, Crash, Tick, vars, GoesTo
  <2> QED
    BY <2>1, <2>2, <2>3, ActivityKept
<1>2. CASE Sweep
  <2>1. /\ finding' = finding \/ finding' \in Found
        /\ pc' \in {"idle", "ladder"}
        /\ UNCHANGED <<kind, checkpoint, lastSent, movedBack>>
    BY <1>2 DEF Sweep
  <2> QED
    BY <2>1 DEF ActivityInv, Found
<1>3. CASE Checkpoint
  <2>1. /\ checkpoint' = finding.attempted
        /\ movedBack' = (movedBack \/ finding.attempted < lastSent)
        /\ pc' = "dispatch" => HasNewActivity /\ finding' = finding
        /\ pc' \in {"idle", "dispatch"} /\ kind.tupleShaped
        /\ UNCHANGED <<kind, lastSent>>
    BY <1>3 DEF Checkpoint, GoesTo, ActivityInv
  <2>2. HasNewActivity /\ finding.attempted > 0 =>
            checkpoint \in {NoCheckpoint, 0} \/ finding.attempted > checkpoint
    BY DEF HasNewActivity
  <2>3. lastSent > 0 /\ ~movedBack' => checkpoint' >= lastSent
    <3>1. ~movedBack' => ~(finding.attempted < lastSent)
      BY ONLY <2>1, Zenon
    <3> QED
      BY <2>1, <3>1, Numbers
  <2>4. HasNewActivity /\ finding.attempted > 0 => finding.attempted > lastSent \/ movedBack
    BY <2>2, Numbers DEF ActivityInv, NoCheckpoint
  <2> QED
    BY <2>1, <2>3, <2>4 DEF ActivityInv
<1>4. ASSUME NEW accepted \in BOOLEAN, Dispatch(accepted) PROVE ActivityInv'
  <2>1. /\ \/ UNCHANGED <<lastSent, movedBack>>
           \/ finding.attempted > 0 /\ lastSent' = finding.attempted
        /\ pc = "dispatch" /\ pc' = "idle" /\ finding' = FirstFinding
        /\ UNCHANGED <<kind, checkpoint>>
    BY <1>4 DEF Dispatch, GoesTo
  <2>2. finding.attempted > 0 => checkpoint = finding.attempted
    <3>1. FirstFinding.attempted = 0
      BY DEF FirstFinding
    <3> QED
      BY <2>1, <3>1 DEF ActivityInv
  <2> QED
    BY <2>1, <2>2, Numbers DEF ActivityInv
<1> QED
  BY <1>1, <1>2, <1>3, <1>4 DEF Next, Sends, Refused

\* Two dispatches about one tuple are about different attempts, unless the
\* checkpoint was put back in between.
THEOREM NoRedispatch == Spec => NoRedispatchWithoutActivity
<1>1. ASSUME Init PROVE ActivityInv
  BY <1>1 DEF Init, ActivityInv
<1>2. TypeOK /\ ActivityInv /\ [Next]_vars
        => [Sends /\ token' = "found" /\ finding.attempted > 0 =>
                finding.attempted > lastSent \/ movedBack]_vars
  <2> SUFFICES ASSUME TypeOK, ActivityInv, Sends, finding.attempted > 0
               PROVE  finding.attempted > lastSent \/ movedBack
    OBVIOUS
  <2>1. pc = "dispatch"
    BY DEF Sends, Dispatch
  <2>2. kind.tupleShaped
    BY DEF ActivityInv, FirstFinding
  <2> QED
    BY <2>1, <2>2 DEF ActivityInv
<1> QED
  BY <1>1, <1>2, TypeCorrect, ActivityStep, PTL DEF Spec, NoRedispatchWithoutActivity

(***************************************************************************)
(* How close two loud calls come.                                          *)
(***************************************************************************)
LongAgo == sinceLoud = NoAge \/ sinceLoud > Window - CallTime - Second

\* A finding in hand was found no longer ago than a call takes; an escalation it
\* caused is younger, but for the fraction of a second that is dropped.  A ladder
\* that never opened has raised nothing; the loud call of one that is open came
\* within that time of the opening, unless it is still on its way.
LoudInv ==
    /\ pc # "idle" => sinceSweep <= CallTime
    /\ ladder.state = "CLOSED" => sinceLoud = NoAge
    /\ ladder.state = "OPEN" =>
        /\ ladder.count > 0 /\ ladder.escalated # NoAge
        /\ sinceLoud = NoAge \/ ladder.escalated <= sinceLoud + CallTime + Second - 1
    /\ pc \in {"checkpoint", "dispatch"} =>
        /\ ladder.state = "OPEN" /\ ladder.escalated <= sinceSweep + Second - 1
        /\ LongAgo

\* An occurrence escalates only when the last loud call is long ago.
LEMMA EscalatesLate ==
    ASSUME TypeOK, LoudInv, Escalates(Stored)
    PROVE  LongAgo
<1>1. CASE ladder.state = "CLOSED"
  BY <1>1 DEF LoudInv, LongAgo
<1>2. CASE ladder.state = "OPEN"
  <2>1. Stored = ladder
    BY <1>2, StoredIsRecord DEF LoudInv, TypeOK
  <2>2. ladder.escalated >= Window
    BY <1>2, <2>1 DEF Escalates, OnProbation
  <2>3. ladder.escalated \in Ages /\ sinceLoud \in Ages \cup {NoAge}
    BY <1>2 DEF LoudInv, TypeOK, Record
  <2> QED
    BY <1>2, <2>2, <2>3 DEF LoudInv, LongAgo, Ages
<1> QED
  BY <1>1, <1>2 DEF TypeOK, Record

\* Time lets the ladder and the call age together.
LEMMA LoudTick == TypeOK /\ LoudInv /\ Tick => LoudInv'
<1> SUFFICES ASSUME TypeOK, LoudInv, Tick PROVE LoudInv'
  OBVIOUS
<1>1. /\ ladder \in Record /\ sinceLoud \in Ages \cup {NoAge} /\ sinceSweep \in Nat
      /\ CallTime \in Nat /\ Second \in Nat /\ Window \in Nat /\ ladder.escalated \in Ages \cup {NoAge}
  BY DEF TypeOK, Record
<1>2. /\ pc' = pc /\ sinceSweep' = sinceSweep + 1 /\ sinceLoud' = Aged(sinceLoud)
      /\ pc # "idle" => sinceSweep < CallTime
  BY DEF Tick
<1>3. ladder'.state = ladder.state /\ ladder'.count = ladder.count
  BY <1>1, LaterIsRecord DEF Tick
<1>4. ladder.count > 0 => ladder'.escalated = Aged(ladder.escalated)
  BY <1>1, LaterIsRecord DEF Tick
<1>5. /\ sinceLoud' = NoAge <=> sinceLoud = NoAge
      /\ sinceLoud # NoAge => sinceLoud' = IF sinceLoud > Window THEN sinceLoud ELSE sinceLoud + 1
  BY <1>1, <1>2, AgedGrows
<1>6. ladder.state = "OPEN" =>
        /\ ladder.escalated \in Ages
        /\ ladder'.escalated = IF ladder.escalated > Window THEN ladder.escalated ELSE ladder.escalated + 1
  BY <1>1, <1>4, AgedGrows DEF LoudInv
<1>7. LongAgo => LongAgo'
  BY <1>1, <1>5 DEF LongAgo, Ages
<1>8. ladder'.state = "OPEN" =>
        /\ ladder'.count > 0 /\ ladder'.escalated # NoAge
        /\ sinceLoud' = NoAge \/ ladder'.escalated <= sinceLoud' + CallTime + Second - 1
  BY <1>1, <1>3, <1>5, <1>6 DEF LoudInv, Ages, NoAge
<1>9. pc' \in {"checkpoint", "dispatch"} =>
        ladder'.state = "OPEN" /\ ladder'.escalated <= sinceSweep' + Second - 1 /\ LongAgo'
  BY <1>1, <1>2, <1>3, <1>6, <1>7 DEF LoudInv, Ages
<1>10. pc' # "idle" => sinceSweep' <= CallTime
  BY <1>1, <1>2
<1>11. ladder'.state = "CLOSED" => sinceLoud' = NoAge
  BY <1>3, <1>5 DEF LoudInv
<1> QED
  BY <1>8, <1>9, <1>10, <1>11 DEF LoudInv

\* No step of the gate brings two calls closer.
LEMMA LoudStep == TypeOK /\ LoudInv /\ [Next]_vars => LoudInv'
<1> SUFFICES ASSUME TypeOK, LoudInv, [Next]_vars PROVE LoudInv'
  OBVIOUS
<1> USE DEF clockVars, dedupVars, historyVars
<1>1. ASSUME UNCHANGED <<ladder, sinceLoud, sinceSweep>>, pc' # "idle" => pc # "idle",
             pc' \in {"checkpoint", "dispatch"} => pc \in {"checkpoint", "dispatch"}
      PROVE  LoudInv'
  BY <1>1 DEF LoudInv, LongAgo
<1>2. CASE Count
  <2>1. /\ ladder' = Advanced(Stored, fraction) /\ sinceLoud' = sinceLoud /\ sinceSweep' = sinceSweep
        /\ pc = "ladder"
        /\ pc' = "idle" \/ Escalates(Stored)
    BY <1>2 DEF Count, GoesTo
  <2>2. /\ Stored \in Record /\ fraction \in Fractions
        /\ ladder.count = 0 => Stored.state = "CLOSED"
        /\ ladder.count > 0 => Stored = ladder
    BY StoredIsRecord DEF TypeOK, Bootstrap
  <2>6. ladder'.count > 0
    BY <2>1, <2>2, AdvancedIsCounted
  <2>3. /\ sinceSweep \in Nat /\ sinceLoud \in Ages \cup {NoAge} /\ ladder \in Record
        /\ fraction <= Second - 1 /\ fraction \in Ages
    BY FractionsAreAges DEF TypeOK
  <2>4. CASE Escalates(Stored)
    <3>1. ladder'.state = "OPEN" /\ ladder'.escalated = fraction
      BY <2>1, <2>4 DEF Advanced
    <3>2. LongAgo
      BY <2>4, EscalatesLate
    <3>3. LongAgo' /\ ladder'.escalated # NoAge /\ ladder'.escalated <= sinceSweep' + Second - 1
      BY <2>1, <2>3, <3>1, <3>2 DEF LongAgo, Ages, NoAge
    <3>4. sinceLoud' = NoAge \/ ladder'.escalated <= sinceLoud' + CallTime + Second - 1
      BY <2>1, <2>3, <3>1 DEF Ages
    <3>5. sinceSweep' <= CallTime
      BY <2>1 DEF LoudInv
    <3> QED
      BY <2>6, <3>1, <3>3, <3>4, <3>5 DEF LoudInv
  <2>5. CASE ~Escalates(Stored)
    <3>1. ladder'.state = Stored.state /\ ladder'.escalated = Stored.escalated
      BY <2>1, <2>5 DEF Advanced
    <3>2. CASE ladder.count > 0
      BY <2>1, <2>2, <2>5, <2>6, <3>1, <3>2 DEF LoudInv
    <3>3. CASE ladder.count = 0
      <4>1. ladder.state = "CLOSED" /\ ladder'.state = "CLOSED"
        BY <2>2, <2>3, <3>1, <3>3 DEF LoudInv, Record
      <4> QED
        BY <2>1, <2>5, <4>1 DEF LoudInv
    <3> QED
      BY <2>3, <3>2, <3>3 DEF Record
  <2> QED
    BY <2>4, <2>5
<1>3. ASSUME NEW accepted \in BOOLEAN, Dispatch(accepted) PROVE LoudInv'
  <2>1. pc = "dispatch" /\ sinceLoud' = 0 /\ pc' = "idle" /\ ladder' = ladder /\ sinceSweep' = sinceSweep
    BY <1>3 DEF Dispatch, GoesTo
  <2>2. ladder.state = "OPEN" /\ ladder.escalated <= sinceSweep + Second - 1 /\ sinceSweep <= CallTime
    BY <2>1 DEF LoudInv
  <2>3. ladder.count > 0 /\ ladder.escalated # NoAge /\ ladder.escalated \in Ages
        /\ sinceSweep \in Nat
    BY <2>2 DEF LoudInv, TypeOK, Record
  <2>4. ladder.escalated <= 0 + CallTime + Second - 1
    BY <2>2, <2>3 DEF Ages
  <2> QED
    BY <2>1, <2>2, <2>3, <2>4 DEF LoudInv
<1>4. CASE Sweep
  <2>1. UNCHANGED <<ladder, sinceLoud>> /\ sinceSweep' = 0 /\ pc' \in {"idle", "ladder"}
    BY <1>4 DEF Sweep
  <2> QED
    BY <2>1 DEF LoudInv
<1>5. Appear \/ Resolve \/ Checkpoint \/ Crash \/ UNCHANGED vars
        => /\ UNCHANGED <<ladder, sinceLoud, sinceSweep>>
           /\ pc' # "idle" => pc # "idle"
           /\ pc' \in {"checkpoint", "dispatch"} => pc \in {"checkpoint", "dispatch"}
  BY DEF Appear, Resolve, Checkpoint, Crash, GoesTo, vars
<1> QED
  BY <1>1, <1>2, <1>3, <1>4, <1>5, LoudTick DEF Next, Sends, Refused

\* Two loud calls about one identity are a window apart, short of the time a call
\* takes and of the fraction of a second that is dropped.
THEOREM LoudOnce == Spec => LoudOncePerWindow
<1>1. ASSUME Init PROVE LoudInv
  BY <1>1 DEF Init, LoudInv, Bootstrap
<1>2. TypeOK /\ LoudInv /\ [Next]_vars
        => [Sends \/ Refused => sinceLoud = NoAge \/ sinceLoud > Window - CallTime - Second]_vars
  BY DEF LoudInv, LongAgo, Sends, Refused, Dispatch
<1> QED
  BY <1>1, <1>2, TypeCorrect, LoudStep, PTL DEF Spec, LoudOncePerWindow

(***************************************************************************)
(* A name with a cooldown never comes to the threshold.                    *)
(***************************************************************************)
Quieted == kind.recurring /\ ~kind.tupleShaped
Ago == cooldown[FirstFinding]
Reaches(age, moment) == age > Window \/ age >= moment

\* Ago is the time since the last occurrence that was let through.  It is counted
\* within a call time, so the first of a window was let through no more than a
\* call time before it was counted, the second comes a window after that, and by
\* the third the window of the first is over.
QuietInv == Quieted =>
    /\ ladder.state = "CLOSED" /\ ladder.count <= 2
    /\ pc \in {"idle", "ladder"}
    /\ pc = "ladder" => Ago = sinceSweep /\ Ago <= CallTime
    /\ ladder.count = 1 =>
        /\ pc = "ladder" => Reaches(ladder.first, Window - CallTime + Ago)
        /\ Ago = NoAge => Reaches(ladder.first, Window + 1 - CallTime)
        /\ Ago # NoAge => Reaches(ladder.first, Ago - CallTime)
    /\ ladder.count = 2 =>
        /\ pc = "ladder" \/ Ago = NoAge => ladder.first > Window
        /\ Reaches(ladder.first, Window - CallTime + Ago)

\* What the invariant speaks of.
LEMMA QuietNumbers ==
    ASSUME TypeOK
    PROVE  /\ Ago \in Ages \cup {NoAge} /\ ladder.first \in Ages /\ ladder.count \in 0..Threshold
           /\ sinceSweep \in Nat /\ CallTime \in Nat /\ Window \in Nat /\ CallTime < Window
           /\ fraction \in Ages /\ Threshold \in Nat /\ Threshold > 2
<1>1. Ago \in Ages \cup {NoAge}
  BY FoundIsFinding DEF TypeOK, Ago
<1> QED
  BY <1>1, FractionsAreAges DEF TypeOK, Record

\* It is all said of the ladder, the cooldown and the place of the finding.
LEMMA QuietKept ==
    ASSUME QuietInv, UNCHANGED <<kind, cooldown, ladder, sinceSweep>>, pc' \in {pc, "idle"}
    PROVE  QuietInv'
BY DEF QuietInv, Quieted, Ago, Reaches

\* An occurrence that is let through finds the first of the window a window older.
LEMMA QuietSweep == TypeOK /\ QuietInv /\ Sweep => QuietInv'
<1> SUFFICES ASSUME TypeOK, QuietInv, Sweep, Quieted' PROVE QuietInv'
  BY DEF QuietInv
<1>1. Quieted /\ UNCHANGED <<kind, ladder>> /\ sinceSweep' = 0 /\ pc = "idle"
  BY DEF Sweep, Quieted
<1>2. CASE UNCHANGED <<dedupVars, pc, finding>>
  BY <1>1, <1>2, QuietNumbers DEF QuietInv, Quieted, Ago, Reaches, dedupVars
<1>3. CASE /\ \E f \in Found : /\ ~IsDuplicateAlert(f)
                               /\ cooldown' = IF kind.recurring THEN [cooldown EXCEPT ![f] = 0] ELSE cooldown
           /\ pc' = "ladder"
  <2>1. /\ ~IsDuplicateAlert(FirstFinding)
        /\ cooldown' = [cooldown EXCEPT ![FirstFinding] = 0]
    BY <1>1, <1>3 DEF Found, Quieted
  <2>2. Ago' = 0
    BY <2>1, FoundIsFinding DEF Ago, TypeOK
  <2>3. Ago = NoAge \/ Ago >= Window
    BY <1>1, <2>1, QuietNumbers DEF IsDuplicateAlert, DedupWindow, Ago, Quieted, Ages, NoAge
  <2>4. ladder.count = 1 => Reaches(ladder.first, Window - CallTime)
    BY <1>1, <2>3, QuietNumbers DEF QuietInv, Reaches, Ages, NoAge
  <2>5. ladder.count = 2 => ladder.first > Window
    BY <1>1, <2>3, QuietNumbers DEF QuietInv, Reaches, Ages, NoAge
  <2>6. ladder.state = "CLOSED" /\ ladder.count <= 2
    BY <1>1 DEF QuietInv
  <2>7. Reaches(ladder.first, Window - CallTime) => Reaches(ladder.first, 0 - CallTime)
    BY QuietNumbers DEF Reaches, Ages
  <2>8. Window - CallTime + 0 = Window - CallTime /\ 0 <= CallTime
    BY QuietNumbers
  <2> QED
    BY <1>1, <1>3, <2>2, <2>4, <2>5, <2>6, <2>7, <2>8 DEF QuietInv, Reaches, NoAge
<1> QED
  BY <1>2, <1>3 DEF Sweep

\* Counted, it is the first of a window or the second, never the third.
LEMMA QuietCount == TypeOK /\ QuietInv /\ Count => QuietInv'
<1> SUFFICES ASSUME TypeOK, QuietInv, Count, Quieted' PROVE QuietInv'
  BY DEF QuietInv
<1>1. /\ Quieted /\ UNCHANGED <<kind, cooldown, sinceSweep>> /\ pc = "ladder"
      /\ ladder' = Advanced(Stored, fraction)
      /\ pc' = "idle" \/ Escalates(Stored)
  BY DEF Count, Quieted, clockVars, dedupVars, GoesTo
<1>2. Ago' = Ago /\ Ago = sinceSweep /\ Ago <= CallTime /\ Ago # NoAge
  BY <1>1, QuietNumbers DEF QuietInv, Ago, NoAge
<1>3. /\ Stored.state = "CLOSED"
      /\ ladder.count = 0 => Stored = Bootstrap(fraction)
      /\ ladder.count > 0 => Stored = ladder
  <2>1. /\ ladder.count = 0 => Stored = Bootstrap(fraction)
        /\ ladder.count > 0 => Stored = ladder
    BY StoredIsRecord DEF TypeOK
  <2>2. ladder.state = "CLOSED" /\ Bootstrap(fraction).state = "CLOSED"
    BY <1>1 DEF QuietInv, Bootstrap
  <2>3. ladder.count = 0 \/ ladder.count > 0
    BY QuietNumbers
  <2> QED
    BY <2>1, <2>2, <2>3
<1>4. \/ ladder.count = 0 /\ Counted(Stored) = 1 /\ Stored.first = fraction
      \/ ladder.count = 1 /\ Counted(Stored) = 1 /\ Stored.first > Window
      \/ ladder.count = 1 /\ Counted(Stored) = 2 /\ Stored.first <= Window
      \/ ladder.count = 2 /\ Counted(Stored) = 1 /\ Stored.first > Window
  BY <1>1, <1>3, QuietNumbers DEF QuietInv, Counted, AtMost, Bootstrap, Ages
<1>5. ~Escalates(Stored)
  BY <1>3, <1>4, QuietNumbers DEF Escalates, OnProbation
<1>6. /\ ladder'.state = "CLOSED" /\ ladder'.count = Counted(Stored)
      /\ ladder'.first = IF Stored.first > Window THEN fraction ELSE Stored.first
      /\ pc' = "idle"
  BY <1>1, <1>3, <1>5 DEF Advanced
<1>7. CASE ladder'.count = 1
  <2>1. ladder'.first \in Ages
    BY <1>3, <1>4, <1>6, <1>7, QuietNumbers DEF Bootstrap
  <2>2. Reaches(ladder'.first, Ago' - CallTime)
    BY <1>2, <2>1, QuietNumbers DEF Reaches, Ages
  <2>3. Ago' # NoAge
    BY <1>2
  <2> QED
    BY <1>2, <1>6, <1>7, <2>2, <2>3 DEF QuietInv
<1>8. CASE ladder'.count = 2
  <2>1. ladder.count = 1 /\ ladder'.first = ladder.first
    <3>1. ladder.count = 1 /\ Stored.first <= Window
      BY <1>4, <1>6, <1>8
    <3>2. Stored = ladder /\ ladder.first \in Nat /\ Window \in Nat
      BY <1>3, <3>1, QuietNumbers DEF Ages
    <3> QED
      BY <1>6, <3>1, <3>2
  <2>2. Reaches(ladder'.first, Window - CallTime + Ago')
    BY <1>1, <1>2, <2>1 DEF QuietInv, Reaches
  <2>3. Ago' # NoAge
    BY <1>2
  <2> QED
    BY <1>2, <1>6, <1>8, <2>2, <2>3 DEF QuietInv
<1> QED
  BY <1>4, <1>6, <1>7, <1>8

\* Time lets the cooldown and the window age together.
LEMMA QuietTick == TypeOK /\ QuietInv /\ Tick => QuietInv'
<1> SUFFICES ASSUME TypeOK, QuietInv, Tick, Quieted' PROVE QuietInv'
  BY DEF QuietInv
<1>1. /\ Quieted /\ UNCHANGED <<kind, pc>> /\ sinceSweep' = sinceSweep + 1
      /\ pc = "ladder" => sinceSweep < CallTime
  BY DEF Tick, Quieted
<1>2. Ago' = IF Ago = NoAge \/ Ago >= Window THEN NoAge ELSE Ago + 1
  BY <1>1, FoundIsFinding DEF Tick, Ago, Kept, DedupWindow, Quieted
<1>3. ladder'.state = ladder.state /\ ladder'.count = ladder.count
  BY LaterIsRecord DEF Tick, TypeOK
<1>4. ladder.count > 0 => ladder'.first = IF ladder.first > Window THEN ladder.first ELSE ladder.first + 1
  BY LaterIsRecord, AgedGrows, QuietNumbers DEF Tick, TypeOK
<1>5. pc' = "ladder" => Ago' = sinceSweep' /\ Ago' <= CallTime
  BY <1>1, <1>2, QuietNumbers DEF QuietInv, NoAge
<1>6. ASSUME ladder.count = 1
      PROVE  /\ pc' = "ladder" => Reaches(ladder'.first, Window - CallTime + Ago')
             /\ Ago' = NoAge => Reaches(ladder'.first, Window + 1 - CallTime)
             /\ Ago' # NoAge => Reaches(ladder'.first, Ago' - CallTime)
  <2>1. pc = "ladder" => Ago # NoAge /\ Ago < Window
    BY <1>1, QuietNumbers DEF QuietInv, NoAge
  <2>2. pc' = "ladder" => Reaches(ladder'.first, Window - CallTime + Ago')
    BY <1>1, <1>2, <1>4, <1>6, <2>1, QuietNumbers DEF QuietInv, Reaches, Ages, NoAge
  <2>3. Ago' = NoAge => Reaches(ladder'.first, Window + 1 - CallTime)
    BY <1>1, <1>2, <1>4, <1>6, QuietNumbers DEF QuietInv, Reaches, Ages, NoAge
  <2>4. Ago' # NoAge => Reaches(ladder'.first, Ago' - CallTime)
    BY <1>1, <1>2, <1>4, <1>6, QuietNumbers DEF QuietInv, Reaches, Ages, NoAge
  <2> QED
    BY <2>2, <2>3, <2>4
<1>7. ASSUME ladder.count = 2
      PROVE  /\ pc' = "ladder" \/ Ago' = NoAge => ladder'.first > Window
             /\ Reaches(ladder'.first, Window - CallTime + Ago')
  <2>1. /\ pc = "ladder" \/ Ago = NoAge => ladder.first > Window
        /\ Reaches(ladder.first, Window - CallTime + Ago)
    BY <1>1, <1>7 DEF QuietInv
  <2>2. pc' = "ladder" \/ Ago' = NoAge => ladder'.first > Window
    BY <1>1, <1>2, <1>4, <1>7, <2>1, QuietNumbers DEF Reaches, Ages, NoAge
  <2>3. Reaches(ladder'.first, Window - CallTime + Ago')
    BY <1>2, <1>4, <1>7, <2>1, <2>2, QuietNumbers DEF Reaches, Ages, NoAge
  <2> QED
    BY <2>2, <2>3
<1>8. ladder.state = "CLOSED" /\ ladder.count <= 2 /\ pc \in {"idle", "ladder"}
  BY <1>1 DEF QuietInv
<1> QED
  BY <1>1, <1>3, <1>5, <1>6, <1>7, <1>8 DEF QuietInv

\* A VM-shaped finding of a name with a cooldown of its own, told in the same
\* details each time, never opens the ladder: its cooldown is the ladder's window
\* (maybe_dispatch_to_orchestrator, _advance_state).
THEOREM RecurringQuiet == Spec => []RecurringStaysQuiet
<1>1. ASSUME Init PROVE QuietInv
  BY <1>1 DEF Init, QuietInv, Bootstrap
<1>2. TypeOK /\ QuietInv /\ [Next]_vars => QuietInv'
  <2> SUFFICES ASSUME TypeOK, QuietInv, [Next]_vars PROVE QuietInv'
    OBVIOUS
  <2> USE DEF clockVars, dedupVars, historyVars
  <2>1. Appear \/ Resolve \/ Crash \/ Sends \/ Refused \/ UNCHANGED vars
          => UNCHANGED <<kind, cooldown, ladder, sinceSweep>> /\ pc' \in {pc, "idle"}
    BY DEF Appear, Resolve, Crash, Sends, Refused, Dispatch, GoesTo, vars
  <2>2. ASSUME Checkpoint PROVE QuietInv'
    BY <2>2 DEF Checkpoint, QuietInv, Quieted
  <2> QED
    BY <2>1, <2>2, QuietKept, QuietSweep, QuietCount, QuietTick DEF Next
<1>3. QuietInv => RecurringStaysQuiet
  BY DEF QuietInv, RecurringStaysQuiet, Quieted
<1> QED
  BY <1>1, <1>2, <1>3, TypeCorrect, PTL DEF Spec

-----------------------------------------------------------------------------
(* The budget.                                                             *)

\* The revisions that have counted for day d and not claimed yet.
Pending(d) == {p \in Processes : checking[p] # NoVm /\ p \notin posting /\ day[p] = d}

Limit == MaxPerDay + Cardinality(Processes) - 1

\* Claims and pending checks of a day fit together in the overshot budget, and
\* nobody is told to relaunch without a claim.
Charged ==
    failures = 0 => \A d \in Days :
        /\ IsFiniteSet(claims[d])
        /\ told[d] \subseteq claims[d]
        /\ \A p \in posting : day[p] = d => checking[p] \in claims[d]
        /\ Cardinality(claims[d]) + Cardinality(Pending(d)) <= Limit

\* Only a VM that is being checked is posted.
PostingChecked == \A p \in posting : checking[p] # NoVm

\* The state has its type: the claims, mirrors and checks of RelaunchBudget; only
\* a VM that is being checked is told to relaunch.
THEOREM BudgetTypeCorrect == BudgetSpec => [](BudgetTypeOK /\ PostingChecked)
<1> DEFINE Inv == BudgetTypeOK /\ PostingChecked
<1>1. BudgetInit => Inv
  BY BudgetAssumption DEF BudgetInit, BudgetTypeOK, PostingChecked, Days
<1>2. Inv /\ [BudgetNext]_budgetVars => Inv'
  <2> SUFFICES ASSUME BudgetTypeOK, PostingChecked, [BudgetNext]_budgetVars PROVE Inv'
    OBVIOUS
  <2> USE BudgetAssumption DEF BudgetTypeOK, PostingChecked, checkVars
  <2>0. ASSUME NEW fails \in BOOLEAN, Fails(fails) PROVE failures' \in 0..MaxFailures
    BY <2>0 DEF Fails
  <2>1. ASSUME NEW p \in Processes, Refuse(p) PROVE Inv'
    BY <2>0, <2>1 DEF Refuse
  <2>2. ASSUME NEW p \in Processes, NEW vm \in Vms, CountClaims(p, vm) PROVE Inv'
    BY <2>0, <2>2 DEF CountClaims
  <2>3. ASSUME NEW p \in Processes, Claim(p) PROVE Inv'
    BY <2>3 DEF Claim, Permit
  <2>4. ASSUME NEW p \in Processes, ClaimInMirror(p) PROVE Inv'
    <3>1. failures' \in 0..MaxFailures
      BY <2>0, <2>4 DEF ClaimInMirror
    <3>2. checking[p] \in Vms /\ day[p] \in Days
      BY <2>4 DEF ClaimInMirror, Permit
    <3>3. claims' \in [Days -> SUBSET Vms]
      BY <2>4, <3>2 DEF ClaimInMirror
    <3>4. mirror' \in [Processes -> SUBSET Vms]
      BY <2>4, <3>2 DEF ClaimInMirror
    <3> QED
      BY <2>4, <3>1, <3>3, <3>4 DEF ClaimInMirror, Permit
  <2>5. ASSUME NEW p \in Processes, Finish(p)
        PROVE  /\ checking' \in [Processes -> Vms \cup {NoVm}] /\ day' \in [Processes -> Days]
               /\ posting' \in SUBSET Processes /\ PostingChecked'
    BY <2>5 DEF Finish, Days
  <2>6. ASSUME NEW p \in posting
        PROVE  /\ [told EXCEPT ![day[p]] = @ \cup {checking[p]}] \in [Days -> SUBSET Vms]
               /\ [missed EXCEPT ![day[p]] = @ \ {checking[p]}] \in [Days -> SUBSET Vms]
               /\ Missed(p) => missed' \in [Days -> SUBSET Vms]
    BY DEF Missed
  <2>7. ASSUME NEW p \in Processes, PostTaken(p) PROVE Inv'
    BY <2>5, <2>6, <2>7 DEF PostTaken
  <2>8. ASSUME NEW p \in Processes, PostRefused(p) PROVE Inv'
    BY <2>5, <2>6, <2>8 DEF PostRefused
  <2>9. ASSUME NEW p \in Processes, Restart(p) PROVE Inv'
    BY <2>5, <2>6, <2>9 DEF Restart
  <2>10. ASSUME Midnight PROVE Inv'
    BY <2>10 DEF Midnight, Days
  <2>11. ASSUME UNCHANGED budgetVars PROVE Inv'
    BY <2>11 DEF budgetVars
  <2> QED
    BY <2>1, <2>2, <2>3, <2>4, <2>7, <2>8, <2>9, <2>10, <2>11 DEF BudgetNext
<1> QED
  BY <1>1, <1>2, PTL DEF BudgetSpec

\* No more checks are pending than there are revisions.
LEMMA PendingFits ==
    ASSUME NEW d
    PROVE  /\ IsFiniteSet(Pending(d))
           /\ Cardinality(Pending(d)) \in Nat
           /\ Cardinality(Pending(d)) <= Cardinality(Processes)
           /\ Cardinality(Processes) \in Nat
<1>1. Pending(d) \subseteq Processes /\ IsFiniteSet(Processes)
  BY BudgetAssumption DEF Pending
<1> QED
  BY <1>1, FS_Subset, FS_CardinalityType

\* Until a bucket call fails, a group overshoots its daily budget by fewer VMs
\* than there are overlapping revisions (check_relaunch_dispatch_budget).
THEOREM Overshoot == BudgetSpec => []OvershootBounded
<1>1. BudgetInit => Charged
  <2> SUFFICES ASSUME BudgetInit, NEW d \in Days
      PROVE /\ IsFiniteSet(claims[d])
            /\ told[d] \subseteq claims[d]
            /\ \A p \in posting : day[p] = d => checking[p] \in claims[d]
            /\ Cardinality(claims[d]) + Cardinality(Pending(d)) <= Limit
    BY DEF Charged
  <2>1. claims[d] = {} /\ told[d] = {} /\ posting = {} /\ Pending(d) = {}
    BY DEF BudgetInit, Pending
  <2>2. Cardinality(Processes) \in Nat /\ Cardinality(Processes) # 0
    BY BudgetAssumption, FS_CardinalityType, FS_EmptySet
  <2> QED
    BY <2>1, <2>2, FS_EmptySet, BudgetAssumption DEF Limit
<1>2. BudgetTypeOK /\ PostingChecked /\ Charged /\ [BudgetNext]_budgetVars => Charged'
  <2> DEFINE Fits(d) == /\ IsFiniteSet(claims[d])
                        /\ told[d] \subseteq claims[d]
                        /\ \A p \in posting : day[p] = d => checking[p] \in claims[d]
                        /\ Cardinality(claims[d]) + Cardinality(Pending(d)) <= Limit
  <2> SUFFICES ASSUME BudgetTypeOK, PostingChecked, Charged, [BudgetNext]_budgetVars, failures' = 0,
                      NEW d \in Days
      PROVE Fits(d)'
    BY DEF Charged, Limit
  <2> USE DEF checkVars
  <2>f. failures = 0
    BY DEF BudgetNext, budgetVars, BudgetTypeOK, Refuse, CountClaims, Claim, ClaimInMirror, PostTaken,
           PostRefused, Restart, Midnight, Fails
  <2>0. /\ Fits(d)
        /\ Cardinality(claims[d]) \in Nat
        /\ Cardinality(Processes) \in Nat
        /\ MaxPerDay \in Nat
    BY <2>f, PendingFits, FS_CardinalityType, BudgetAssumption DEF Charged
  <2>a. ASSUME Pending(d)' \subseteq Pending(d), UNCHANGED claims, told'[d] \subseteq claims[d],
               \A p \in posting' : day'[p] = d => checking'[p] \in claims[d]
        PROVE  Fits(d)'
    <3>1. Cardinality(Pending(d)') \in Nat /\ Cardinality(Pending(d)) \in Nat
          /\ Cardinality(Pending(d)') <= Cardinality(Pending(d))
      BY <2>a, PendingFits, FS_Subset, FS_CardinalityType
    <3> QED
      BY <2>0, <2>a, <3>1, BudgetAssumption DEF Limit
  <2>1. ASSUME NEW p \in Processes, Refuse(p) PROVE Fits(d)'
    <3>1. Pending(d)' = Pending(d) /\ UNCHANGED <<claims, told, posting, day, checking>>
      BY <2>1 DEF Refuse, Pending
    <3> QED
      BY <2>0, <2>a, <3>1
  <2>2. ASSUME NEW p \in Processes, NEW vm \in Vms, CountClaims(p, vm) PROVE Fits(d)'
    <3>1. UNCHANGED <<claims, told, posting>> /\ \A q \in Processes \ {p} : day'[q] = day[q] /\ checking'[q] = checking[q]
      BY <2>2 DEF CountClaims, BudgetTypeOK
    <3>2. p \notin posting
      BY <2>2 DEF CountClaims, PostingChecked
    <3>3. \A q \in posting' : day'[q] = d => checking'[q] \in claims[d]
      BY <2>0, <3>1, <3>2 DEF BudgetTypeOK
    <3>4. CASE today = d
      <4>1. Cardinality(claims[d]) < MaxPerDay
        <5>1. PICK fails \in BOOLEAN : ~Exhausted(Ledger(p, fails)) /\ Fails(fails)
          BY <2>2 DEF CountClaims
        <5>2. ~fails
          BY <2>f, <5>1 DEF Fails
        <5> QED
          BY <2>0, <3>4, <5>1, <5>2 DEF Ledger, Exhausted
      <4>2. /\ Cardinality(Pending(d)') \in Nat
            /\ Cardinality(Pending(d)') <= Cardinality(Processes)
        <5>1. Pending(d)' \subseteq Processes
          BY DEF Pending
        <5> QED
          BY <5>1, BudgetAssumption, FS_Subset, FS_CardinalityType
      <4> QED
        BY <2>0, <3>1, <3>3, <4>1, <4>2 DEF Limit
    <3>5. CASE today # d
      <4>1. Pending(d)' \subseteq Pending(d)
        BY <2>2, <3>5 DEF CountClaims, Pending, BudgetTypeOK
      <4> QED
        BY <2>0, <2>a, <3>1, <3>3, <4>1
    <3> QED
      BY <3>4, <3>5
  <2>3. ASSUME NEW p \in Processes, Claim(p) PROVE Fits(d)'
    <3>0. /\ posting' = posting \cup {p} /\ UNCHANGED <<told, checking, day>>
          /\ p \notin posting /\ checking[p] # NoVm
      BY <2>3 DEF Claim, Permit
    <3>1. CASE day[p] = d
      <4>1. claims'[d] = claims[d] \cup {checking[p]}
        BY <2>3, <3>1 DEF Claim, BudgetTypeOK
      <4>2. p \in Pending(d) /\ Pending(d)' = Pending(d) \ {p}
        BY <3>0, <3>1 DEF Pending
      <4>3. /\ Cardinality(Pending(d)') = Cardinality(Pending(d)) - 1
            /\ Cardinality(Pending(d)) \in Nat
        BY <4>2, PendingFits, FS_RemoveElement
      <4>4. /\ IsFiniteSet(claims'[d])
            /\ Cardinality(claims'[d]) \in Nat
            /\ Cardinality(claims'[d]) <= Cardinality(claims[d]) + 1
        <5>1. /\ IsFiniteSet(claims[d] \cup {checking[p]})
              /\ \/ Cardinality(claims[d] \cup {checking[p]}) = Cardinality(claims[d])
                 \/ Cardinality(claims[d] \cup {checking[p]}) = Cardinality(claims[d]) + 1
          BY <2>0, FS_AddElement
        <5> QED
          BY <2>0, <4>1, <5>1
      <4>5. told'[d] \subseteq claims'[d] /\ \A q \in posting' : day'[q] = d => checking'[q] \in claims'[d]
        BY <2>0, <3>0, <4>1
      <4> QED
        BY <2>0, <4>3, <4>4, <4>5 DEF Limit
    <3>2. CASE day[p] # d
      <4>1. claims'[d] = claims[d]
        BY <2>3, <3>2 DEF Claim, BudgetTypeOK
      <4>2. Pending(d)' = Pending(d)
        BY <3>0, <3>2 DEF Pending
      <4>3. told'[d] \subseteq claims'[d] /\ \A q \in posting' : day'[q] = d => checking'[q] \in claims'[d]
        BY <2>0, <3>0, <3>2, <4>1
      <4> QED
        BY <2>0, <4>1, <4>2, <4>3 DEF Limit
    <3> QED
      BY <3>1, <3>2
  <2>4. ASSUME NEW p \in Processes, ClaimInMirror(p) PROVE FALSE
    BY <2>4, <2>f DEF ClaimInMirror, Fails
  <2>5. ASSUME NEW p \in Processes, Finish(p)
        PROVE  /\ Pending(d)' \subseteq Pending(d)
               /\ \A q \in posting' : q \in posting /\ day'[q] = day[q] /\ checking'[q] = checking[q]
    BY <2>5 DEF Finish, Pending, BudgetTypeOK
  <2>6. ASSUME NEW p \in Processes, PostTaken(p) PROVE Fits(d)'
    <3>1. p \in posting /\ told'[d] = IF d = day[p] THEN told[d] \cup {checking[p]} ELSE told[d]
      BY <2>6 DEF PostTaken, BudgetTypeOK
    <3>2. told'[d] \subseteq claims[d]
      BY <2>0, <3>1
    <3> QED
      BY <2>0, <2>5, <2>6, <2>a, <3>2 DEF PostTaken
  <2>7. ASSUME NEW p \in Processes, PostRefused(p) \/ Restart(p) PROVE Fits(d)'
    BY <2>0, <2>5, <2>7, <2>a DEF PostRefused, Restart
  <2>8. CASE Midnight \/ UNCHANGED budgetVars
    <3>1. Pending(d)' = Pending(d) /\ UNCHANGED <<claims, told, posting, day, checking>>
      BY <2>8 DEF Midnight, budgetVars, Pending
    <3> QED
      BY <2>0, <2>a, <3>1
  <2> QED
    BY <2>1, <2>2, <2>3, <2>4, <2>6, <2>7, <2>8 DEF BudgetNext
<1>3. BudgetTypeOK /\ Charged => OvershootBounded
  <2> SUFFICES ASSUME BudgetTypeOK, Charged, failures = 0, NEW d \in Days
      PROVE Cardinality(told[d]) <= MaxPerDay + Cardinality(Processes) - 1
    BY DEF OvershootBounded
  <2>1. /\ Cardinality(Pending(d)) \in Nat
        /\ Cardinality(claims[d]) \in Nat /\ Cardinality(told[d]) \in Nat
        /\ Cardinality(told[d]) <= Cardinality(claims[d])
        /\ Cardinality(Processes) \in Nat
    BY PendingFits, FS_CardinalityType, FS_Subset DEF Charged
  <2> QED
    BY <2>1, BudgetAssumption DEF Charged, Limit
<1> QED
  BY <1>1, <1>2, <1>3, BudgetTypeCorrect, PTL DEF BudgetSpec

-----------------------------------------------------------------------------
\* Whatever the bucket, or a mirror today, shows of a day was claimed that day.
Honest ==
    /\ \A d \in Days : IsFiniteSet(told[d]) /\ IsFiniteSet(missed[d])
                       /\ claims[d] \subseteq Claimants(d)
    /\ \A p \in Processes : mirror[p] \subseteq Claimants(today)

RefusalInv == Honest /\ RefusedOnlyWhenSpent

\* What finitely many processes hold is finite.
LEMMA HandsFinite ==
    ASSUME NEW taken, IsFiniteSet(taken), NEW lost, IsFiniteSet(lost),
           NEW hands \in SUBSET Processes, NEW held
    PROVE  IsFiniteSet(taken \cup lost \cup {held[p] : p \in hands})
<1> DEFINE image == {held[p] : p \in hands}
           f == [p \in hands |-> held[p]]
<1>1. IsFiniteSet(hands)
  BY BudgetAssumption, FS_Subset
<1>2. f \in Surjection(hands, image)
  BY DEF Surjection
<1>3. IsFiniteSet(image)
  BY <1>1, <1>2, FS_Surjection
<1>4. IsFiniteSet(taken \cup lost)
  BY FS_Union
<1> QED
  BY <1>3, <1>4, FS_Union

\* Those who claimed on a day are finitely many, after a step as before it.
LEMMA ClaimantsFinite ==
    ASSUME NEW d \in Days
    PROVE  /\ BudgetTypeOK /\ Honest => IsFiniteSet(Claimants(d))
           /\ BudgetTypeOK' /\ Honest' => IsFiniteSet(Claimants(d)')
<1>1. ASSUME BudgetTypeOK, Honest PROVE IsFiniteSet(Claimants(d))
  <2>1. IsFiniteSet(told[d]) /\ IsFiniteSet(missed[d])
    BY <1>1 DEF Honest
  <2> DEFINE hands == {q \in posting : day[q] = d}
  <2>2. hands \in SUBSET Processes
    BY <1>1 DEF BudgetTypeOK
  <2>3. Claimants(d) = told[d] \cup missed[d] \cup {checking[p] : p \in hands}
    BY DEF Claimants
  <2> HIDE DEF hands
  <2>4. IsFiniteSet(told[d] \cup missed[d] \cup {checking[p] : p \in hands})
    BY <2>1, <2>2, HandsFinite
  <2> QED
    BY <2>3, <2>4
<1>2. ASSUME BudgetTypeOK', Honest' PROVE IsFiniteSet(Claimants(d)')
  <2>1. IsFiniteSet(told'[d]) /\ IsFiniteSet(missed'[d])
    BY <1>2 DEF Honest
  <2> DEFINE hands == {q \in posting' : day'[q] = d}
  <2>2. hands \in SUBSET Processes
    BY <1>2 DEF BudgetTypeOK
  <2>3. Claimants(d)' = told'[d] \cup missed'[d] \cup {checking'[p] : p \in hands}
    BY DEF Claimants
  <2> HIDE DEF hands
  <2>4. IsFiniteSet(told'[d] \cup missed'[d] \cup {checking'[p] : p \in hands})
    BY <2>1, <2>2, HandsFinite
  <2> QED
    BY <2>3, <2>4
<1> QED
  BY <1>1, <1>2

\* As long as claimants only join and ledgers show claimants only, every refusal
\* stays justified.
LEMMA RefusalKept ==
    ASSUME BudgetTypeOK, BudgetTypeOK', RefusalInv, Honest',
           \A d \in Days : Claimants(d) \subseteq Claimants(d)',
           \A d \in refused' : d \in refused \/ Cardinality(Claimants(d)) >= MaxPerDay
    PROVE  RefusalInv'
<1> SUFFICES ASSUME NEW d \in refused' PROVE Cardinality(Claimants(d)') >= MaxPerDay
  BY DEF RefusalInv, RefusedOnlyWhenSpent
<1>1. d \in Days /\ Cardinality(Claimants(d)) >= MaxPerDay
  BY DEF BudgetTypeOK, RefusalInv, RefusedOnlyWhenSpent
<1>2. IsFiniteSet(Claimants(d)) /\ IsFiniteSet(Claimants(d)')
  BY <1>1, ClaimantsFinite DEF RefusalInv
<1>3. /\ Cardinality(Claimants(d)) \in Nat /\ Cardinality(Claimants(d)') \in Nat
      /\ Cardinality(Claimants(d)) <= Cardinality(Claimants(d)')
  BY <1>1, <1>2, FS_CardinalityType, FS_Subset
<1> QED
  BY <1>1, <1>3, BudgetAssumption

\* A refusal is never made up (check_relaunch_dispatch_budget): whatever fails, as
\* many VMs as the budget has claimed that day.
THEOREM Spent == BudgetSpec => []RefusedOnlyWhenSpent
<1>1. ASSUME BudgetInit PROVE RefusalInv
  BY <1>1, FS_EmptySet DEF BudgetInit, RefusalInv, Honest, RefusedOnlyWhenSpent
<1>2. BudgetTypeOK /\ BudgetTypeOK' /\ PostingChecked /\ RefusalInv /\ [BudgetNext]_budgetVars => RefusalInv'
  <2> SUFFICES ASSUME BudgetTypeOK, BudgetTypeOK', PostingChecked, RefusalInv, [BudgetNext]_budgetVars
      PROVE RefusalInv'
    OBVIOUS
  <2> USE DEF checkVars
  <2>h. Honest
    BY DEF RefusalInv
  <2>a. ASSUME UNCHANGED <<today, claims, told, missed, refused>>,
               \A d \in Days : Claimants(d)' = Claimants(d),
               \A p \in Processes : mirror'[p] \subseteq mirror[p]
        PROVE  RefusalInv'
    <3>1. Honest'
      BY <2>h, <2>a DEF Honest, BudgetTypeOK
    <3> QED
      BY <2>a, <3>1, RefusalKept
  <2>1. ASSUME NEW p \in Processes, Refuse(p) PROVE RefusalInv'
    <3>1. PICK fails \in BOOLEAN : Exhausted(Ledger(p, fails))
      BY <2>1 DEF Refuse
    <3>2. today \in Days /\ Ledger(p, fails) \subseteq Claimants(today) /\ IsFiniteSet(Claimants(today))
      BY <2>h, ClaimantsFinite DEF Ledger, Honest, BudgetTypeOK
    <3>3. Cardinality(Ledger(p, fails)) <= Cardinality(Claimants(today))
          /\ Cardinality(Ledger(p, fails)) \in Nat /\ Cardinality(Claimants(today)) \in Nat
      BY <3>2, FS_Subset, FS_CardinalityType
    <3>4. Cardinality(Claimants(today)) >= MaxPerDay
      BY <3>1, <3>3, BudgetAssumption DEF Exhausted
    <3>5. UNCHANGED <<today, claims, mirror, told, missed, posting, day, checking>>
          /\ refused' = refused \cup {today}
      BY <2>1 DEF Refuse
    <3>6. \A d \in Days : Claimants(d)' = Claimants(d)
      BY <3>5 DEF Claimants
    <3>7. Honest'
      BY <2>h, <3>5, <3>6 DEF Honest, BudgetTypeOK
    <3> QED
      BY <3>4, <3>5, <3>6, <3>7, RefusalKept
  <2>2. ASSUME NEW p \in Processes, NEW vm \in Vms, CountClaims(p, vm) PROVE RefusalInv'
    <3>1. p \notin posting /\ UNCHANGED <<today, claims, mirror, told, missed, posting, refused>>
      BY <2>2 DEF CountClaims, PostingChecked
    <3>2. \A q \in posting : day'[q] = day[q] /\ checking'[q] = checking[q]
      BY <2>2, <3>1 DEF CountClaims, BudgetTypeOK
    <3>3. \A d \in Days : Claimants(d)' = Claimants(d)
      BY <3>1, <3>2 DEF Claimants
    <3> QED
      BY <2>a, <3>1, <3>3
  <2>3. ASSUME NEW p \in Processes, Permit(p), UNCHANGED <<today, checking, day, told, missed, refused>>,
               \A d \in Days : claims'[d] \subseteq claims[d] \cup (IF d = day[p] THEN {checking[p]} ELSE {}),
               \A q \in Processes :
                    mirror'[q] \subseteq mirror[q] \cup (IF today = day[p] THEN {checking[p]} ELSE {})
        PROVE  RefusalInv'
    <3>1. \A d \in Days : Claimants(d)' = Claimants(d) \cup (IF d = day[p] THEN {checking[p]} ELSE {})
      BY <2>3 DEF Permit, Claimants
    <3>2. Honest'
      BY <2>h, <2>3, <3>1 DEF Honest, BudgetTypeOK
    <3> QED
      BY <2>3, <3>1, <3>2, RefusalKept
  <2>4. ASSUME NEW p \in Processes, Claim(p) PROVE RefusalInv'
    <3>1. \A d \in Days : claims'[d] \subseteq claims[d] \cup (IF d = day[p] THEN {checking[p]} ELSE {})
      BY <2>4 DEF Claim, BudgetTypeOK
    <3> QED
      BY <2>3, <2>4, <3>1 DEF Claim
  <2>5. ASSUME NEW p \in Processes, ClaimInMirror(p) PROVE RefusalInv'
    <3>1. \A d \in Days : claims'[d] \subseteq claims[d] \cup (IF d = day[p] THEN {checking[p]} ELSE {})
      BY <2>5 DEF ClaimInMirror, BudgetTypeOK
    <3>2. \A q \in Processes :
            mirror'[q] \subseteq mirror[q] \cup (IF today = day[p] THEN {checking[p]} ELSE {})
      BY <2>5 DEF ClaimInMirror, BudgetTypeOK
    <3> QED
      BY <2>3, <2>5, <3>1, <3>2 DEF ClaimInMirror
  \* A VM in hand is told of, or missed: a claimant either way.
  <2>6. ASSUME NEW p \in Processes, Finish(p), UNCHANGED <<today, claims, refused>>,
               \A q \in Processes : mirror'[q] \subseteq mirror[q],
               \A d \in Days : /\ IsFiniteSet(told'[d]) /\ IsFiniteSet(missed'[d])
                               /\ told[d] \cup missed[d] \subseteq told'[d] \cup missed'[d]
                               /\ p \in posting /\ d = day[p] => checking[p] \in told'[d] \cup missed'[d]
        PROVE  RefusalInv'
    <3>1. \A q \in posting \ {p} : q \in posting' /\ day'[q] = day[q] /\ checking'[q] = checking[q]
      BY <2>6 DEF Finish, BudgetTypeOK
    <3>2. ASSUME NEW d \in Days PROVE Claimants(d) \subseteq Claimants(d)'
      <4> SUFFICES ASSUME NEW vm \in Claimants(d) PROVE vm \in Claimants(d)'
        OBVIOUS
      <4>1. CASE vm \in told[d] \cup missed[d]
        BY <2>6, <4>1 DEF Claimants
      <4>2. CASE vm \in {checking[q] : q \in {r \in posting : day[r] = d}}
        <5>1. PICK q \in posting : day[q] = d /\ vm = checking[q]
          BY <4>2
        <5> QED
          BY <2>6, <3>1, <5>1 DEF Claimants
      <4> QED
        BY <4>1, <4>2 DEF Claimants
    <3>3. Honest'
      BY <2>h, <2>6, <3>2 DEF Honest, BudgetTypeOK
    <3> QED
      BY <2>6, <3>2, <3>3, RefusalKept
  <2>7. ASSUME NEW p \in posting, Missed(p), NEW d \in Days
        PROVE  /\ IsFiniteSet(missed'[d]) /\ missed[d] \subseteq missed'[d]
               /\ d = day[p] => checking[p] \in told[d] \cup missed'[d]
    <3>1. missed'[d] = IF d = day[p] THEN missed[d] \cup ({checking[p]} \ told[d]) ELSE missed[d]
      BY <2>7 DEF Missed, BudgetTypeOK
    <3>2. IsFiniteSet({checking[p]} \ told[d])
      BY FS_Singleton, FS_Subset
    <3>3. IsFiniteSet(missed[d] \cup ({checking[p]} \ told[d])) /\ IsFiniteSet(missed[d])
      BY <2>h, <3>2, FS_Union DEF Honest
    <3> QED
      BY <3>1, <3>3
  <2>8. ASSUME NEW p \in Processes, PostTaken(p) PROVE RefusalInv'
    <3>1. ASSUME NEW d \in Days
          PROVE  /\ told'[d] = IF d = day[p] THEN told[d] \cup {checking[p]} ELSE told[d]
                 /\ missed'[d] = IF d = day[p] THEN missed[d] \ {checking[p]} ELSE missed[d]
      BY <2>8 DEF PostTaken, BudgetTypeOK
    <3>2. ASSUME NEW d \in Days PROVE IsFiniteSet(told'[d]) /\ IsFiniteSet(missed'[d])
      <4>1. IsFiniteSet(told[d]) /\ IsFiniteSet(missed[d])
        BY <2>h DEF Honest
      <4>2. IsFiniteSet(told[d] \cup {checking[p]}) /\ IsFiniteSet(missed[d] \ {checking[p]})
        BY <4>1, FS_AddElement, FS_RemoveElement, FS_Subset
      <4> QED
        BY <3>1, <4>1, <4>2
    <3>3. /\ Finish(p) /\ UNCHANGED <<today, claims, refused>>
          /\ \A q \in Processes : mirror'[q] \subseteq mirror[q]
      BY <2>8 DEF PostTaken
    <3>4. ASSUME NEW d \in Days
          PROVE  /\ told[d] \cup missed[d] \subseteq told'[d] \cup missed'[d]
                 /\ p \in posting /\ d = day[p] => checking[p] \in told'[d] \cup missed'[d]
      BY <3>1
    <3> QED
      BY <2>6, <3>2, <3>3, <3>4
  <2>9. ASSUME NEW p \in Processes, PostRefused(p) PROVE RefusalInv'
    BY <2>6, <2>7, <2>9, <2>h DEF PostRefused, Honest
  <2>10. ASSUME NEW p \in Processes, Restart(p) PROVE RefusalInv'
    <3>1. \A q \in Processes : mirror'[q] \subseteq mirror[q]
      BY <2>10 DEF Restart, BudgetTypeOK
    <3> QED
      BY <2>6, <2>7, <2>10, <2>h, <3>1 DEF Restart, Honest
  <2>11. CASE Midnight
    <3>1. /\ UNCHANGED <<claims, told, missed, posting, day, checking, refused>>
          /\ \A p \in Processes : mirror'[p] = {}
      BY <2>11 DEF Midnight
    <3>2. \A d \in Days : Claimants(d)' = Claimants(d)
      BY <3>1 DEF Claimants
    <3>3. Honest'
      BY <2>h, <3>1, <3>2 DEF Honest
    <3> QED
      BY <3>1, <3>2, <3>3, RefusalKept
  <2>12. CASE UNCHANGED budgetVars
    BY <2>a, <2>12 DEF budgetVars, Claimants
  <2> QED
    BY <2>1, <2>2, <2>4, <2>5, <2>8, <2>9, <2>10, <2>11, <2>12 DEF BudgetNext
<1>3. RefusalInv => RefusedOnlyWhenSpent
  BY DEF RefusalInv
<1> QED
  BY <1>1, <1>2, <1>3, BudgetTypeCorrect, PTL DEF BudgetSpec

=============================================================================
