----------------------- MODULE EscalationLadderProofs -----------------------
(***************************************************************************)
(* Proofs about EscalationLadder, for any window, threshold, revisions and *)
(* identities, on a bucket that may fail.                                  *)
(***************************************************************************)
EXTENDS EscalationLadder, TLAPS

USE LadderAssumption DEF NoAge, Ages

\* A second is no longer than a window, so its fractions are ages.
LEMMA FractionsAreAges ==
    /\ 0 \in Fractions
    /\ \A f \in Fractions : f \in Ages /\ NextFraction(f) \in Fractions
BY DEF Fractions, NextFraction

\* One occurrence turns a record into a record.
LEMMA AdvancedIsRecord ==
    ASSUME NEW r \in Record, NEW f \in Fractions
    PROVE  Advanced(r, f) \in Record /\ Answer(r) \in Answers
<1>1. Counted(r) \in 0..Threshold
  BY DEF Counted, AtMost, Record
<1>2. AtMost(r.count + 1, Threshold) \in 0..Threshold /\ AtMost(r.rung + 1, MaxRung) \in 0..MaxRung
  BY DEF AtMost, Record
<1>3. f \in Ages
  BY FractionsAreAges
<1> QED
  BY <1>1, <1>2, <1>3 DEF Advanced, Answer, Answers, Record

\* So does the passing of time.
LEMMA AgedIsRecord ==
    ASSUME NEW r \in Record
    PROVE  /\ OneTickLater(r) \in Record
           /\ OneTickLater(r).count = r.count
           /\ OneTickLater(r).state = r.state
<1>1. \A age \in Ages \cup {NoAge} : Aged(age) \in Ages \cup {NoAge}
  BY DEF Aged
<1>2. \A age \in Ages : Aged(age) \in Ages
  BY DEF Aged
<1>3. r.first \in Ages /\ r.escalated \in Ages \cup {NoAge}
  BY DEF Record
<1>4. Aged(r.first) \in Ages /\ Aged(r.escalated) \in Ages \cup {NoAge}
  BY <1>1, <1>2, <1>3
<1> QED
  BY <1>4 DEF OneTickLater, Record

LEMMA BootstrapIsRecord == \A f \in Fractions : Bootstrap(f) \in Record
BY FractionsAreAges DEF Bootstrap, Record

\* The history of calm operation is a truth value.
LEMMA CalmIsBoolean == TypeOK /\ [Next]_vars => calm' \in BOOLEAN
<1> SUFFICES ASSUME TypeOK, [Next]_vars PROVE calm' \in BOOLEAN
  OBVIOUS
<1>1. calm \in BOOLEAN
  BY DEF TypeOK
<1>2. ASSUME NEW p \in Processes, NEW i \in Identities, Unresolvable(p, i) \/ Read(p, i)
      PROVE  calm' \in BOOLEAN
  BY <1>2 DEF Unresolvable, Read
<1>3. ASSUME NEW p \in Processes, Write(p) PROVE calm' \in BOOLEAN
  BY <1>3 DEF Write
<1>4. ASSUME NEW p \in Processes, Crash(p) PROVE calm' \in BOOLEAN
  BY <1>1, <1>4 DEF Crash
<1>5. CASE Tick \/ UNCHANGED vars
  BY <1>1, <1>5 DEF Tick, vars, recordVars
<1> QED
  BY <1>2, <1>3, <1>4, <1>5 DEF Next

\* The state has its type, records capped and ages bounded.
THEOREM TypeCorrect == Spec => []TypeOK
<1> USE StorageAssumption DEF Answers
<1>1. Init => TypeOK
  BY BootstrapIsRecord, FractionsAreAges DEF Init, TypeOK
<1>2. TypeOK /\ [Next]_vars => TypeOK'
  <2> SUFFICES ASSUME TypeOK, [Next]_vars PROVE TypeOK'
    OBVIOUS
  <2> USE DEF TypeOK
  <2>c. calm' \in BOOLEAN
    BY CalmIsBoolean DEF TypeOK
  <2>a. \A n \in 0..Threshold : AtMost(n + 1, Threshold) \in 0..Threshold
    BY DEF AtMost
  <2>b. ASSUME NEW i \in Identities, Occurs(i) PROVE occurred' \in [Identities -> 0..Threshold]
    BY <2>a, <2>b DEF Occurs
  <2>1. ASSUME NEW p \in Processes, NEW i \in Identities, Unresolvable(p, i) PROVE TypeOK'
    BY <2>c, <2>1, <2>b DEF Unresolvable
  <2>2. ASSUME NEW p \in Processes, NEW i \in Identities, Read(p, i) PROVE TypeOK'
    <3>1. PICK fails \in {FALSE, StorageMayFail} :
            LET r == IF fails \/ i \notin stored THEN Bootstrap(fraction) ELSE ladder[i]
            IN  /\ held' = [held EXCEPT ![p] = Advanced(r, fraction)]
                /\ answer' = [answer EXCEPT ![p] = Answer(r)]
                /\ decided' = [decided EXCEPT ![p] = IF Answer(r) = "OPEN" THEN 0 ELSE NoAge]
      BY <2>2 DEF Read
    <3> DEFINE r == IF fails \/ i \notin stored THEN Bootstrap(fraction) ELSE ladder[i]
    <3>2. r \in Record
      BY BootstrapIsRecord
    <3>3. Advanced(r, fraction) \in Record /\ Answer(r) \in Answers
      BY <3>2, AdvancedIsRecord
    <3>4. /\ held' \in [Processes -> Record] /\ answer' \in [Processes -> Answers]
          /\ decided' \in [Processes -> Ages \cup {NoAge}]
      BY <3>1, <3>3
    <3> QED
      BY <2>c, <2>2, <2>b, <3>4 DEF Read
  <2>3. ASSUME NEW p \in Processes, Write(p) PROVE TypeOK'
    <3>1. handling[p] \in Identities
      BY <2>3 DEF Write, Idle
    <3>2. held[p] \in Record /\ held[p].escalated \in Ages \cup {NoAge}
      BY DEF Record
    <3>3. ladder' \in [Identities -> Record] /\ stored' \in SUBSET Identities
      BY <2>3, <3>1, <3>2 DEF Write
    <3>4. sinceAlarm' \in [Identities -> Ages \cup {NoAge}]
      BY <2>3, <3>1, <3>2 DEF Write
    <3> QED
      BY <2>c, <2>3, <3>3, <3>4 DEF Write
  <2>4. ASSUME NEW p \in Processes, Crash(p) PROVE TypeOK'
    BY <2>c, <2>4 DEF Crash
  <2>5. CASE Tick
    <3>1. \A age \in Ages \cup {NoAge} : Aged(age) \in Ages \cup {NoAge}
      BY DEF Aged
    <3>2. /\ sinceAlarm' \in [Identities -> Ages \cup {NoAge}]
          /\ decided' \in [Processes -> Ages \cup {NoAge}]
          /\ fraction' \in Fractions
      BY <2>5, <3>1, FractionsAreAges DEF Tick
    <3>3. ladder' \in [Identities -> Record] /\ held' \in [Processes -> Record]
      BY <2>5, AgedIsRecord DEF Tick
    <3> QED
      BY <2>c, <2>5, <3>2, <3>3 DEF Tick
  <2>6. CASE UNCHANGED vars
    BY <2>c, <2>6 DEF vars, recordVars
  <2> QED
    BY <2>1, <2>2, <2>3, <2>4, <2>5, <2>6 DEF Next
<1> QED
  BY <1>1, <1>2, PTL DEF Spec

\* The heart of the matter: what one occurrence does to the bookkeeping of a record
\* whose count and state are covered by n real occurrences.
LEMMA AdvanceIsCovered ==
    ASSUME NEW r \in Record, NEW f, NEW n \in 0..Threshold,
           r.count <= n, r.state = "OPEN" => n = Threshold
    PROVE  /\ Advanced(r, f).count <= AtMost(n + 1, Threshold)
           /\ Advanced(r, f).state = "OPEN" \/ Answer(r) = "OPEN" => AtMost(n + 1, Threshold) = Threshold
<1>1. r.count \in 0..Threshold
  BY DEF Record
<1>2. /\ Counted(r) <= AtMost(n + 1, Threshold)
      /\ AtMost(r.count + 1, Threshold) <= AtMost(n + 1, Threshold)
  BY <1>1 DEF Counted, AtMost
<1>4. r.state = "OPEN" => AtMost(n + 1, Threshold) = Threshold
  BY DEF AtMost
<1>3. Escalates(r) => AtMost(n + 1, Threshold) = Threshold
  <2>1. AtMost(n + 1, Threshold) \in Nat /\ AtMost(n + 1, Threshold) <= Threshold
    BY DEF AtMost
  <2>2. Counted(r) \in Nat
    BY <1>1 DEF Counted, AtMost
  <2>3. Counted(r) >= Threshold => AtMost(n + 1, Threshold) = Threshold
    BY <1>2, <2>1, <2>2
  <2> QED
    BY <1>4, <2>3 DEF Escalates, OnProbation
<1> QED
  BY <1>2, <1>3, <1>4 DEF Advanced, Answer

\* Every loud answer has its cause, the threshold or a bucket not resolved.
LEMMA AlarmsHaveCause ==
    ASSUME TypeOK, QuietBelowThreshold, [Next]_vars, NEW i \in Identities, sinceAlarm'[i] # NoAge
    PROVE  occurred'[i] = Threshold \/ i \in failedOpen'
<1> USE StorageAssumption DEF TypeOK, QuietBelowThreshold, Idle
<1>1. sinceAlarm[i] # NoAge => occurred[i] = Threshold \/ i \in failedOpen
  OBVIOUS
<1>2. ASSUME NEW j \in Identities, Occurs(j)
      PROVE  occurred[i] = Threshold => occurred'[i] = Threshold
  BY <1>2 DEF Occurs, AtMost
<1>3. ASSUME NEW p \in Processes, NEW j \in Identities, Unresolvable(p, j)
      PROVE  occurred'[i] = Threshold \/ i \in failedOpen'
  <2>1. i = j \/ sinceAlarm'[i] = sinceAlarm[i]
    BY <1>3 DEF Unresolvable
  <2>2. failedOpen' = failedOpen \cup {j} /\ Occurs(j)
    BY <1>3 DEF Unresolvable
  <2> QED
    BY <1>1, <1>2, <2>1, <2>2
<1>4. ASSUME NEW p \in Processes, NEW j \in Identities, Read(p, j)
      PROVE  occurred'[i] = Threshold \/ i \in failedOpen'
  BY <1>1, <1>2, <1>4 DEF Read
<1>5. ASSUME NEW p \in Processes, Write(p)
      PROVE  occurred'[i] = Threshold \/ i \in failedOpen'
  <2>1. handling[p] # NoIdentity /\ UNCHANGED <<occurred, failedOpen>>
    BY <1>5 DEF Write
  <2>2. sinceAlarm'[i] = sinceAlarm[i] \/ (i = handling[p] /\ answer[p] = "OPEN")
    BY <1>5 DEF Write
  <2> QED
    BY <1>1, <2>1, <2>2
<1>6. ASSUME NEW p \in Processes, Crash(p)
      PROVE  occurred'[i] = Threshold \/ i \in failedOpen'
  BY <1>1, <1>6 DEF Crash
<1>7. CASE Tick
  BY <1>1, <1>7 DEF Tick, Aged
<1>8. CASE UNCHANGED vars
  BY <1>1, <1>8 DEF vars, recordVars
<1> QED
  BY <1>3, <1>4, <1>5, <1>6, <1>7, <1>8 DEF Next

\* The part of QuietBelowThreshold that is about records.
OccurrencesCovered ==
    /\ \A i \in Identities : /\ ladder[i].count <= occurred[i]
                             /\ ladder[i].state = "OPEN" => occurred[i] = Threshold
    /\ \A p \in Processes : ~Idle(p) =>
        /\ held[p].count <= occurred[handling[p]]
        /\ answer[p] = "OPEN" \/ held[p].state = "OPEN" => occurred[handling[p]] = Threshold

\* The ladder stays quiet below the threshold ("occurrences 1-2 stay quiet",
\* escalation_ladder.py) unless it cannot resolve its bucket, whatever else is
\* lost, fails or crashes.
THEOREM QuietCorrect == Spec => []QuietBelowThreshold
<1> USE StorageAssumption
<1>1. Init => QuietBelowThreshold
  BY DEF Init, QuietBelowThreshold, Bootstrap, Idle
<1>2. TypeOK /\ OccurrencesCovered /\ [Next]_vars => OccurrencesCovered'
  <2> SUFFICES ASSUME TypeOK, OccurrencesCovered, [Next]_vars PROVE OccurrencesCovered'
    OBVIOUS
  <2> USE DEF TypeOK, OccurrencesCovered, Idle
  <2>b. ASSUME NEW i \in Identities, Occurs(i)
        PROVE /\ occurred'[i] = AtMost(occurred[i] + 1, Threshold)
              /\ \A j \in Identities : occurred'[j] >= occurred[j] /\ occurred'[j] \in 0..Threshold
    BY <2>b DEF Occurs, AtMost
  <2>c. \A i \in Identities : ladder[i].count \in 0..Threshold
    BY DEF Record
  <2>d. \A p \in Processes : held[p].count \in 0..Threshold
    BY DEF Record
  <2>1. ASSUME NEW p \in Processes, NEW i \in Identities, Unresolvable(p, i)
        PROVE OccurrencesCovered'
    <3>1. /\ UNCHANGED <<ladder, held, handling>> /\ handling[p] = NoIdentity
          /\ \A q \in Processes \ {p} : answer'[q] = answer[q]
      BY <2>1 DEF Unresolvable
    <3>2. \A j \in Identities : occurred'[j] >= occurred[j] /\ occurred'[j] \in 0..Threshold
      BY <2>1, <2>b DEF Unresolvable
    <3>3. \A j \in Identities : /\ ladder'[j].count <= occurred'[j]
                                /\ ladder'[j].state = "OPEN" => occurred'[j] = Threshold
      BY <2>c, <3>1, <3>2
    <3>4. ASSUME NEW q \in Processes, handling[q] # NoIdentity
          PROVE /\ held[q].count <= occurred'[handling[q]]
                /\ answer'[q] = "OPEN" \/ held[q].state = "OPEN" => occurred'[handling[q]] = Threshold
      <4>1. answer'[q] = answer[q]
        BY <3>1, <3>4
      <4>2. /\ handling[q] \in Identities /\ held[q].count <= occurred[handling[q]]
            /\ answer[q] = "OPEN" \/ held[q].state = "OPEN" => occurred[handling[q]] = Threshold
        BY <3>4
      <4>3. /\ occurred'[handling[q]] >= occurred[handling[q]]
            /\ occurred'[handling[q]] \in 0..Threshold /\ occurred[handling[q]] \in 0..Threshold
        BY <3>2, <4>2
      <4> HIDE DEF TypeOK, OccurrencesCovered
      <4> QED
        BY <2>d, <4>1, <4>2, <4>3, LadderAssumption
    <3> QED
      BY <3>1, <3>3, <3>4
  <2>2. ASSUME NEW p \in Processes, NEW i \in Identities, Read(p, i)
        PROVE OccurrencesCovered'
    <3>1. PICK fails \in {FALSE, StorageMayFail} :
            LET r == IF fails \/ i \notin stored THEN Bootstrap(fraction) ELSE ladder[i]
            IN  /\ held' = [held EXCEPT ![p] = Advanced(r, fraction)]
                /\ answer' = [answer EXCEPT ![p] = Answer(r)]
      BY <2>2 DEF Read
    <3> DEFINE r == IF fails \/ i \notin stored THEN Bootstrap(fraction) ELSE ladder[i]
    <3>2. r \in Record /\ r.count <= occurred[i] /\ (r.state = "OPEN" => occurred[i] = Threshold)
      BY BootstrapIsRecord DEF Bootstrap
    <3>3. /\ Advanced(r, fraction).count <= occurred'[i]
          /\ Advanced(r, fraction).state = "OPEN" \/ Answer(r) = "OPEN" => occurred'[i] = Threshold
      <4>1. occurred[i] \in 0..Threshold /\ occurred'[i] = AtMost(occurred[i] + 1, Threshold)
        BY <2>2, <2>b DEF Read
      <4> HIDE DEF r
      <4> QED
        BY <3>2, <4>1, AdvanceIsCovered
    <3>4. held'[p] = Advanced(r, fraction) /\ answer'[p] = Answer(r) /\ handling'[p] = i
      BY <2>2, <3>1 DEF Read
    <3>5. \A q \in Processes \ {p} :
            held'[q] = held[q] /\ answer'[q] = answer[q] /\ handling'[q] = handling[q]
      BY <2>2, <3>1 DEF Read
    <3>6. ladder' = ladder /\ \A j \in Identities : occurred'[j] >= occurred[j] /\ occurred'[j] \in 0..Threshold
      BY <2>2, <2>b DEF Read
    <3> HIDE DEF r
    <3>7. \A j \in Identities : /\ ladder'[j].count <= occurred'[j]
                                /\ ladder'[j].state = "OPEN" => occurred'[j] = Threshold
      <4>1. \A j \in Identities : /\ occurred[j] \in 0..Threshold
                                  /\ ladder[j].count <= occurred[j]
                                  /\ ladder[j].state = "OPEN" => occurred[j] = Threshold
        OBVIOUS
      <4> HIDE DEF TypeOK, OccurrencesCovered
      <4> QED
        BY <2>c, <3>6, <4>1, LadderAssumption
    <3>8. ASSUME NEW q \in Processes \ {p}, handling[q] # NoIdentity
          PROVE /\ held[q].count <= occurred'[handling[q]]
                /\ answer[q] = "OPEN" \/ held[q].state = "OPEN" => occurred'[handling[q]] = Threshold
      BY <2>d, <3>6, <3>8
    <3>9. \A q \in Processes : handling'[q] # NoIdentity =>
            /\ held'[q].count <= occurred'[handling'[q]]
            /\ answer'[q] = "OPEN" \/ held'[q].state = "OPEN" => occurred'[handling'[q]] = Threshold
      BY <3>3, <3>4, <3>5, <3>8
    <3> QED
      BY <3>7, <3>9
  <2>3. ASSUME NEW p \in Processes, Write(p) PROVE OccurrencesCovered'
    BY <2>3 DEF Write
  <2>4. ASSUME NEW p \in Processes, Crash(p) PROVE OccurrencesCovered'
    BY <2>4 DEF Crash
  <2>5. CASE Tick
    <3>1. \A j \in Identities : ladder'[j].count = ladder[j].count /\ ladder'[j].state = ladder[j].state
      BY <2>5, AgedIsRecord DEF Tick
    <3>2. \A q \in Processes : held'[q].count = held[q].count /\ held'[q].state = held[q].state
      BY <2>5, AgedIsRecord DEF Tick
    <3> QED
      BY <2>5, <3>1, <3>2 DEF Tick
  <2>6. CASE UNCHANGED vars
    BY <2>6 DEF vars, recordVars
  <2> QED
    BY <2>1, <2>2, <2>3, <2>4, <2>5, <2>6 DEF Next
<1>3. TypeOK /\ QuietBelowThreshold /\ [Next]_vars => QuietBelowThreshold'
  <2> SUFFICES ASSUME TypeOK, QuietBelowThreshold, [Next]_vars PROVE QuietBelowThreshold'
    OBVIOUS
  <2>1. OccurrencesCovered'
    BY <1>2 DEF QuietBelowThreshold, OccurrencesCovered
  <2>2. \A i \in Identities : sinceAlarm'[i] # NoAge => occurred'[i] = Threshold \/ i \in failedOpen'
    BY AlarmsHaveCause
  <2> QED
    BY <2>1, <2>2 DEF QuietBelowThreshold, OccurrencesCovered
<1> QED
  BY <1>1, <1>3, TypeCorrect, PTL DEF Spec

-----------------------------------------------------------------------------
(* One alarm per window.                                                   *)

\* Record r accounts for an alarm of that age: it is open, and holds a moment that
\* is less than a second earlier at most.
AccountsFor(r, age) ==
    r.state = "OPEN" /\ 0 <= r.escalated /\ r.escalated < age + Second

\* Record r accounts for the alarms of identity i.
Accounts(r, i) == sinceAlarm[i] # NoAge => AccountsFor(r, sinceAlarm[i])

\* In calm operation every alarm is accounted for by the durable record of its
\* identity, and by the record the only call under way is about to write, which is
\* where the alarm it may be about to return is.
AlarmsRecorded ==
    /\ \A p, q \in Processes : ~Idle(p) /\ ~Idle(q) => p = q
    /\ \A i \in Identities : sinceAlarm[i] # NoAge => i \in stored
    /\ \A i \in Identities : Accounts(ladder[i], i)
    /\ \A p \in Processes : ~Idle(p) =>
        IF answer[p] = "OPEN"
        THEN decided[p] # NoAge /\ AccountsFor(held[p], decided[p])
        ELSE Accounts(held[p], handling[p])

\* One tick ages a record and its alarms alike.
LEMMA AgedKeepsAccount ==
    ASSUME NEW r \in Record, NEW i \in Identities, NEW since \in Ages \cup {NoAge},
           since # NoAge => AccountsFor(r, since), Aged(since) # NoAge
    PROVE  AccountsFor(OneTickLater(r), Aged(since))
<1>1. since # NoAge
  BY DEF Aged
<1>2. /\ r.state = "OPEN" /\ r.escalated \in Ages \cup {NoAge}
      /\ 0 <= r.escalated /\ r.escalated < since + Second
  BY <1>1 DEF Record, AccountsFor
<1>3. OneTickLater(r).escalated = Aged(r.escalated)
  BY DEF OneTickLater, Record
<1>4. 0 <= Aged(r.escalated) /\ Aged(r.escalated) < Aged(since) + Second
  BY <1>1, <1>2 DEF Aged
<1> QED
  BY <1>2, <1>3, <1>4, AgedIsRecord DEF AccountsFor

\* What a read that did not fail found: a record that accounts for the alarms.
LEMMA CalmReadAccounts ==
    ASSUME TypeOK, AlarmsRecorded, NEW i \in Identities
    PROVE  /\ (IF i \notin stored THEN Bootstrap(fraction) ELSE ladder[i]) \in Record
           /\ Accounts(IF i \notin stored THEN Bootstrap(fraction) ELSE ladder[i], i)
<1>1. CASE i \in stored
  BY <1>1 DEF TypeOK, AlarmsRecorded
<1>2. CASE i \notin stored
  BY <1>2, BootstrapIsRecord DEF TypeOK, AlarmsRecorded, Accounts
<1> QED
  BY <1>1, <1>2

\* The call that reads such a record raises an alarm only when there is none to
\* repeat, and otherwise still accounts for it.
LEMMA AdvanceAccounts ==
    ASSUME NEW r \in Record, NEW i \in Identities, sinceAlarm[i] \in Ages \cup {NoAge},
           Accounts(r, i), fraction \in Fractions
    PROVE  /\ Answer(r) = "OPEN" =>
                /\ AccountsFor(Advanced(r, fraction), 0)
                /\ sinceAlarm[i] = NoAge \/ sinceAlarm[i] > Window - Second
           /\ Answer(r) # "OPEN" => Accounts(Advanced(r, fraction), i)
<1>1. r.escalated \in Ages \cup {NoAge} /\ r.state \in {"CLOSED", "OPEN"}
  BY DEF Record
<1>2. CASE Escalates(r)
  <2>1. /\ Answer(r) = "OPEN" /\ Advanced(r, fraction).state = "OPEN"
        /\ Advanced(r, fraction).escalated = fraction
    BY <1>2 DEF Answer, Advanced
  <2>2. AccountsFor(Advanced(r, fraction), 0)
    BY <2>1 DEF AccountsFor, Fractions
  <2>3. sinceAlarm[i] = NoAge \/ sinceAlarm[i] > Window - Second
    BY <1>1, <1>2 DEF Escalates, OnProbation, Accounts, AccountsFor
  <2> QED
    BY <2>1, <2>2, <2>3
<1>3. CASE ~Escalates(r)
  <2>1. /\ Answer(r) = "quiet"
        /\ Advanced(r, fraction).state = r.state /\ Advanced(r, fraction).escalated = r.escalated
    BY <1>3 DEF Answer, Advanced
  <2> QED
    BY <2>1 DEF Accounts, AccountsFor
<1> QED
  BY <1>2, <1>3

\* What a read does as long as nothing has gone wrong.
LEMMA CalmRead ==
    ASSUME TypeOK, AlarmsRecorded, NEW p \in Processes, NEW i \in Identities,
           Read(p, i), calm'
    PROVE  /\ answer'[p] = "OPEN" =>
                /\ decided'[p] = 0 /\ AccountsFor(held'[p], 0)
                /\ sinceAlarm[i] = NoAge \/ sinceAlarm[i] > Window - Second
           /\ answer'[p] # "OPEN" => Accounts(held'[p], i)
           /\ \A q \in Processes : Idle(q)
<1>1. PICK fails \in {FALSE, StorageMayFail} :
        LET r == IF fails \/ i \notin stored THEN Bootstrap(fraction) ELSE ladder[i]
        IN  /\ held' = [held EXCEPT ![p] = Advanced(r, fraction)]
            /\ answer' = [answer EXCEPT ![p] = Answer(r)]
            /\ decided' = [decided EXCEPT ![p] = IF Answer(r) = "OPEN" THEN 0 ELSE NoAge]
            /\ calm' = (calm /\ ~fails /\ \A q \in Processes : Idle(q))
  BY DEF Read
<1>2. ~fails /\ \A q \in Processes : Idle(q)
  BY <1>1
<1> DEFINE r == IF i \notin stored THEN Bootstrap(fraction) ELSE ladder[i]
<1>3. /\ held'[p] = Advanced(r, fraction) /\ answer'[p] = Answer(r)
      /\ decided'[p] = IF Answer(r) = "OPEN" THEN 0 ELSE NoAge
  BY <1>1, <1>2 DEF TypeOK
<1>4. r \in Record /\ Accounts(r, i)
  BY CalmReadAccounts
<1>5. sinceAlarm[i] \in Ages \cup {NoAge} /\ fraction \in Fractions
  BY DEF TypeOK
<1> HIDE DEF r
<1> QED
  BY <1>2, <1>3, <1>4, <1>5, AdvanceAccounts

\* Every calm step keeps the alarms accounted for; a crash between the read and
\* the write loses the alarm with the call that was to return it.
LEMMA AlarmsRecordedStep ==
    TypeOK /\ (calm => AlarmsRecorded) /\ [Next]_vars => (calm' => AlarmsRecorded')
<1> SUFFICES ASSUME TypeOK, calm => AlarmsRecorded, [Next]_vars, calm'
             PROVE  AlarmsRecorded'
  OBVIOUS
<1> USE StorageAssumption
<1>0. /\ calm \in BOOLEAN /\ ladder \in [Identities -> Record] /\ stored \subseteq Identities
      /\ held \in [Processes -> Record] /\ handling \in [Processes -> Identities \cup {NoIdentity}]
      /\ sinceAlarm \in [Identities -> Ages \cup {NoAge}]
      /\ decided \in [Processes -> Ages \cup {NoAge}]
  BY DEF TypeOK
<1>1. ASSUME NEW p \in Processes, NEW i \in Identities, Unresolvable(p, i)
      PROVE  AlarmsRecorded'
  BY <1>1 DEF Unresolvable
<1>2. ASSUME NEW p \in Processes, NEW i \in Identities, Read(p, i)
      PROVE  AlarmsRecorded'
  <2>1. calm
    BY <1>2 DEF Read
  <2>2. /\ answer'[p] = "OPEN" => decided'[p] = 0 /\ AccountsFor(held'[p], 0)
        /\ answer'[p] # "OPEN" => Accounts(held'[p], i)
        /\ \A q \in Processes : Idle(q)
    BY <1>2, <2>1, CalmRead
  <2>3. /\ UNCHANGED <<ladder, stored, sinceAlarm>>
        /\ handling'[p] = i /\ \A q \in Processes \ {p} : handling'[q] = handling[q]
    BY <1>0, <1>2 DEF Read
  <2>4. \A q \in Processes : ~Idle(q)' => q = p
    BY <2>2, <2>3 DEF Idle
  <2>5. (Accounts(held'[p], i) => Accounts(held[p], handling[p])')
    BY <2>3 DEF Accounts, AccountsFor
  <2>6. answer'[p] = "OPEN" => decided'[p] # NoAge /\ AccountsFor(held'[p], decided'[p])
    BY <2>2
  <2>7. \A j \in Identities : Accounts(ladder[j], j)'
    BY <2>1, <2>3 DEF AlarmsRecorded, Accounts, AccountsFor
  <2> QED
    BY <2>1, <2>2, <2>3, <2>4, <2>5, <2>6, <2>7 DEF AlarmsRecorded, AccountsFor
<1>3. ASSUME NEW p \in Processes, Write(p)
      PROVE  AlarmsRecorded'
  <2>1. calm /\ ladder' = [ladder EXCEPT ![handling[p]] = held[p]]
        /\ stored' = stored \cup {handling[p]}
    BY <1>3 DEF Write
  <2>2. /\ sinceAlarm' = IF answer[p] = "OPEN"
                         THEN [sinceAlarm EXCEPT ![handling[p]] = decided[p]]
                         ELSE sinceAlarm
        /\ handling' = [handling EXCEPT ![p] = NoIdentity]
        /\ ~Idle(p)
    BY <1>3 DEF Write
  <2>3. AlarmsRecorded /\ handling[p] \in Identities
    BY <1>0, <2>1, <2>2 DEF Idle
  <2>4. \A q \in Processes : Idle(q)'
    BY <1>0, <2>2, <2>3 DEF AlarmsRecorded, Idle
  <2>5. \A j \in Identities \ {handling[p]} :
            sinceAlarm'[j] = sinceAlarm[j] /\ ladder'[j] = ladder[j]
    BY <1>0, <2>1, <2>2
  <2>6. ASSUME NEW i \in Identities, i = handling[p]
        PROVE  Accounts(ladder[i], i)'
    <3>1. ladder'[i] = held[p]
      BY <1>0, <2>1, <2>6
    <3>2. held[p].escalated \in Ages \cup {NoAge}
      BY <1>0 DEF Record
    <3>3. CASE answer[p] = "OPEN"
      <4>1. sinceAlarm'[i] = decided[p]
        BY <1>0, <2>2, <2>6, <3>3
      <4>2. AccountsFor(held[p], decided[p])
        BY <2>2, <2>3, <3>3 DEF AlarmsRecorded
      <4> QED
        BY <3>1, <3>2, <4>1, <4>2 DEF Accounts, AccountsFor
    <3>4. CASE answer[p] # "OPEN"
      BY <2>2, <2>3, <2>6, <3>1, <3>4 DEF AlarmsRecorded, Accounts, AccountsFor
    <3> QED
      BY <3>3, <3>4
  <2>7. \A j \in Identities : Accounts(ladder[j], j)'
    BY <2>3, <2>5, <2>6 DEF AlarmsRecorded, Accounts, AccountsFor
  <2>8. \A j \in Identities : sinceAlarm'[j] # NoAge => j \in stored'
    BY <2>1, <2>3, <2>5 DEF AlarmsRecorded
  <2> QED
    BY <2>4, <2>7, <2>8 DEF AlarmsRecorded
<1>4. ASSUME NEW p \in Processes, Crash(p)
      PROVE  AlarmsRecorded'
  <2>1. /\ calm /\ UNCHANGED <<ladder, stored, held, answer, decided, sinceAlarm>>
        /\ \A q \in Processes : handling'[q] = handling[q] \/ handling'[q] = NoIdentity
    BY <1>0, <1>4 DEF Crash
  <2> QED
    BY <2>1 DEF AlarmsRecorded, Accounts, AccountsFor, Idle
<1>5. CASE Tick
  <2>1. calm /\ UNCHANGED <<stored, handling, answer>>
    BY <1>5 DEF Tick
  <2>2. /\ \A i \in Identities : ladder'[i] = OneTickLater(ladder[i])
                                 /\ sinceAlarm'[i] = Aged(sinceAlarm[i])
        /\ \A p \in Processes : held'[p] = OneTickLater(held[p]) /\ decided'[p] = Aged(decided[p])
    BY <1>5 DEF Tick
  <2>3. ASSUME NEW i \in Identities, NEW r \in Record, Accounts(r, i), sinceAlarm'[i] # NoAge
        PROVE  AccountsFor(OneTickLater(r), sinceAlarm'[i])
    <3>1. sinceAlarm[i] \in Ages \cup {NoAge} /\ sinceAlarm'[i] = Aged(sinceAlarm[i])
      BY <1>0, <2>2
    <3>2. sinceAlarm[i] # NoAge => AccountsFor(r, sinceAlarm[i])
      BY <2>3 DEF Accounts
    <3> QED
      BY <2>3, <3>1, <3>2, AgedKeepsAccount
  <2>4. \A i \in Identities : sinceAlarm'[i] # NoAge => sinceAlarm[i] # NoAge
    BY <2>2 DEF Aged
  <2>5. \A i \in Identities : Accounts(ladder[i], i)'
    <3> SUFFICES ASSUME NEW i \in Identities, sinceAlarm'[i] # NoAge
                 PROVE  AccountsFor(ladder'[i], sinceAlarm'[i])
      BY DEF Accounts, AccountsFor
    <3>1. ladder[i] \in Record /\ Accounts(ladder[i], i)
      BY <1>0, <2>1 DEF AlarmsRecorded
    <3> QED
      BY <2>2, <2>3, <3>1
  <2>6. ASSUME NEW p \in Processes, ~Idle(p)
        PROVE  IF answer[p] = "OPEN"
               THEN decided'[p] # NoAge /\ AccountsFor(held'[p], decided'[p])
               ELSE sinceAlarm'[handling[p]] # NoAge =>
                        AccountsFor(held'[p], sinceAlarm'[handling[p]])
    <3>1. handling[p] \in Identities /\ held[p] \in Record
      BY <1>0, <2>6 DEF Idle
    <3>2. CASE answer[p] = "OPEN"
      <4>1. decided[p] # NoAge /\ AccountsFor(held[p], decided[p])
        BY <2>1, <2>6, <3>2 DEF AlarmsRecorded
      <4>2. decided[p] \in Ages /\ Aged(decided[p]) # NoAge
        BY <1>0, <4>1 DEF Aged
      <4>3. AccountsFor(OneTickLater(held[p]), Aged(decided[p]))
        BY <3>1, <4>1, <4>2, AgedKeepsAccount
      <4> QED
        BY <2>2, <3>2, <4>2, <4>3
    <3>3. CASE answer[p] # "OPEN"
      <4>1. Accounts(held[p], handling[p])
        BY <2>1, <2>6, <3>3 DEF AlarmsRecorded
      <4> QED
        BY <2>2, <2>3, <3>1, <3>3, <4>1
    <3> QED
      BY <3>2, <3>3
  <2>7. \A p, q \in Processes : ~Idle(p)' /\ ~Idle(q)' => p = q
    BY <2>1 DEF AlarmsRecorded, Idle
  <2> QED
    BY <2>1, <2>4, <2>5, <2>6, <2>7 DEF AlarmsRecorded, Accounts, AccountsFor, Idle
<1>6. CASE UNCHANGED vars
  BY <1>6 DEF vars, recordVars, AlarmsRecorded, Accounts, AccountsFor, Idle
<1> QED
  BY <1>1, <1>2, <1>3, <1>4, <1>5, <1>6 DEF Next

\* In calm operation an alarm is decided no more than a second's fraction short of a
\* window after the one before it ("no re-fire on every subsequent occurrence",
\* escalation_ladder.py), crashes included.
THEOREM AlarmsCorrect == Spec => OneAlarmPerWindow
<1>1. Init => (calm => AlarmsRecorded)
  BY DEF Init, AlarmsRecorded, Accounts, Idle
<1>2. TypeOK /\ (calm => AlarmsRecorded) /\ [Next]_vars =>
        [\A p \in Processes, i \in Identities :
            calm' /\ Idle(p) /\ handling'[p] = i /\ answer'[p] = "OPEN" =>
                sinceAlarm[i] = NoAge \/ sinceAlarm[i] > Window - Second]_vars
  <2> SUFFICES ASSUME TypeOK, calm => AlarmsRecorded, [Next]_vars, vars' # vars,
                      NEW p \in Processes, NEW i \in Identities,
                      calm', Idle(p), handling'[p] = i, answer'[p] = "OPEN"
               PROVE  sinceAlarm[i] = NoAge \/ sinceAlarm[i] > Window - Second
    OBVIOUS
  <2>1. handling'[p] # handling[p]
    BY StorageAssumption DEF Idle
  <2>2. Read(p, i)
    <3>1. ASSUME NEW q \in Processes, NEW j \in Identities, Read(q, j)
          PROVE  q = p /\ j = i
      BY <2>1, <3>1 DEF Read, TypeOK
    <3>2. ASSUME NEW q \in Processes, Write(q) \/ Crash(q)
          PROVE  FALSE
      BY <2>1, <3>2 DEF Write, Crash, Idle, TypeOK
    <3>3. ASSUME NEW q \in Processes, NEW j \in Identities, Unresolvable(q, j)
          PROVE  FALSE
      BY <2>1, <3>3 DEF Unresolvable
    <3>4. ~Tick
      BY <2>1 DEF Tick
    <3> QED
      BY <3>1, <3>2, <3>3, <3>4 DEF Next, vars, recordVars
  <2>3. calm
    BY <2>2 DEF Read
  <2> QED
    BY <2>2, <2>3, CalmRead
<1> QED
  BY <1>1, <1>2, AlarmsRecordedStep, TypeCorrect, PTL DEF Spec, OneAlarmPerWindow

=============================================================================
