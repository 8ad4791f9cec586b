------------------------ MODULE FailureAlertsProofs -------------------------
(***************************************************************************)
(* Proofs about FailureAlerts, for any windows, thresholds and cooldowns,  *)
(* for breakers that are probed and for breakers that are not.             *)
(*                                                                         *)
(* None of the properties is inductive.  What ties the breaker, which may  *)
(* have forgotten errors, to the failures that really happened is that it  *)
(* has forgotten none while it is closed (Remembers); what ties the stamps *)
(* of two layers to deliveries is that none of an escalated alert is newer *)
(* than the last delivery (StampsAreDeliveries).                           *)
(***************************************************************************)
EXTENDS FailureAlerts, FiniteSetTheorems, TLAPS

USE FailureAssumption

-----------------------------------------------------------------------------
(* The list of errors: pruning, and one more.                              *)

\* Any list of the bounded model is finite, and pruning shortens it.
LEMMA PrunedShrinks ==
    ASSUME NEW errors \in SUBSET Errors
    PROVE  /\ IsFiniteSet(errors) /\ Cardinality(errors) \in Nat
           /\ Pruned(errors) \in SUBSET Errors
           /\ IsFiniteSet(Pruned(errors)) /\ Cardinality(Pruned(errors)) \in Nat
           /\ Cardinality(Pruned(errors)) <= Cardinality(errors)
<1>1. IsFiniteSet(Time) /\ IsFiniteSet(1..MaxErrors)
  BY FS_Interval DEF Time
<1>2. IsFiniteSet(Errors)
  BY <1>1, FS_Product DEF Errors
<1>3. IsFiniteSet(errors)
  BY <1>2, FS_Subset
<1>4. Pruned(errors) \subseteq errors
  BY DEF Pruned
<1> QED
  BY <1>3, <1>4, FS_Subset, FS_CardinalityType

\* The errors of this moment leave room for one more while the window does.
LEMMA SerialIsFree ==
    ASSUME NEW errors \in SUBSET Errors, now \in Time, kind \in Kinds,
           Cardinality(Pruned(errors)) < MaxErrors
    PROVE  \E n \in 1..MaxErrors : <<now, n>> \notin errors
<1> SUFFICES ASSUME \A n \in 1..MaxErrors : <<now, n>> \in errors
    PROVE FALSE
  OBVIOUS
<1> DEFINE f == [n \in 1..MaxErrors |-> <<now, n>>]
<1>1. \A n \in 1..MaxErrors : <<now, n>> \in Pruned(errors)
  <2>1. Window[kind] \in Nat \ {0} /\ now \in Nat
    BY DEF Time
  <2>2. now > now - Window[kind]
    BY <2>1
  <2> QED
    BY <2>2 DEF Pruned
<1>2. f \in Injection(1..MaxErrors, Pruned(errors))
  BY <1>1 DEF Injection, IsInjective
<1>3. IsFiniteSet(Pruned(errors)) /\ Cardinality(Pruned(errors)) \in Nat
  BY PrunedShrinks
<1>4. Cardinality(1..MaxErrors) <= Cardinality(Pruned(errors))
  BY <1>2, <1>3, FS_Injection
<1>5. Cardinality(1..MaxErrors) = MaxErrors
  BY FS_Interval
<1> QED
  BY <1>3, <1>4, <1>5

\* A failure makes the list one longer, and pruning it leaves what pruning the old
\* list would have left, and the failure.
LEMMA OneMore ==
    ASSUME NEW errors \in SUBSET Errors, now \in Time, kind \in Kinds,
           Cardinality(Pruned(errors)) < MaxErrors
    PROVE  /\ Pruned(Appended(errors)) \in SUBSET Errors
           /\ Pruned(Pruned(Appended(errors))) = Pruned(Appended(errors))
           /\ Cardinality(Pruned(Appended(errors))) = Cardinality(Pruned(errors)) + 1
           /\ Cardinality(Pruned(Appended(errors))) \in Nat
           /\ Cardinality(Pruned(Appended(errors))) <= MaxErrors
<1> DEFINE n == CHOOSE k \in 1..MaxErrors : <<now, k>> \notin errors
<1>1. n \in 1..MaxErrors /\ <<now, n>> \notin errors
  BY SerialIsFree
<1>2. Appended(errors) = errors \cup {<<now, n>>}
  BY DEF Appended
<1> HIDE DEF n
<1>3. Window[kind] \in Nat \ {0} /\ now \in Nat
  BY DEF Time
<1>4. Pruned(Appended(errors)) = Pruned(errors) \cup {<<now, n>>}
  BY <1>2, <1>3 DEF Pruned
<1>5. <<now, n>> \notin Pruned(errors) /\ <<now, n>> \in Errors
  BY <1>1 DEF Pruned, Errors
<1>6. /\ IsFiniteSet(Pruned(errors)) /\ Cardinality(Pruned(errors)) \in Nat
      /\ Pruned(errors) \in SUBSET Errors
  BY PrunedShrinks
<1>7. Cardinality(Pruned(Appended(errors))) = Cardinality(Pruned(errors)) + 1
  BY <1>4, <1>5, <1>6, FS_AddElement
<1>8. Pruned(Pruned(Appended(errors))) = Pruned(Appended(errors))
  BY DEF Pruned
<1> QED
  BY <1>4, <1>5, <1>6, <1>7, <1>8

-----------------------------------------------------------------------------
(* What an error does to a breaker, and what its user then keeps of it.    *)

\* The whole of a failure, named.
Moved == AfterError(breaker)
Escalated == Escalates(breaker, Moved)
Kept == IF kind # "service_error" \/ Escalated THEN Pruned(Moved.errors) ELSE Moved.errors

\* A breaker stays one through a failure, and its list stays within the bound.
LEMMA MovedType ==
    ASSUME TypeOK, Cardinality(Pruned(breaker.errors)) < MaxErrors
    PROVE  /\ Moved \in Breaker
           /\ Kept \in SUBSET Errors
           /\ Cardinality(Kept) \in 0..MaxErrors
<1>1. breaker \in Breaker /\ breaker.errors \in SUBSET Errors /\ now \in Time /\ kind \in Kinds
  BY DEF TypeOK, Breaker
<1>2. /\ Pruned(Appended(breaker.errors)) \in SUBSET Errors
      /\ Cardinality(Pruned(Appended(breaker.errors))) \in 0..MaxErrors
  BY <1>1, OneMore
<1>3. Moved \in Breaker
  BY <1>1, <1>2 DEF Moved, AfterError, Breaker
<1>4. Moved.errors \in SUBSET Errors /\ Cardinality(Moved.errors) \in 0..MaxErrors
  BY <1>1, <1>2, PrunedShrinks DEF Moved, AfterError, Breaker, TypeOK
<1>5. Pruned(Moved.errors) \in SUBSET Errors /\ Cardinality(Pruned(Moved.errors)) \in 0..MaxErrors
  BY <1>4, PrunedShrinks
<1> QED
  BY <1>3, <1>4, <1>5 DEF Kept

\* Fail, its local definitions replaced by names.
LEMMA FailNamed ==
    ASSUME TypeOK, Fail
    PROVE  LET id == Identity(Escalated, Cardinality(Kept))
               passes == (kind # "service_error" \/ Escalated) /\ ~IsDuplicateAlert(id)
           IN  /\ Cardinality(Pruned(breaker.errors)) < MaxErrors
               /\ Cardinality(Pruned(recent)) < MaxErrors
               /\ id \in Identities
               /\ breaker' = [Moved EXCEPT !.errors = Kept]
               /\ seen' = IF passes THEN [seen EXCEPT ![id] = now] ELSE seen
               /\ cooldown' = IF passes /\ Recurring THEN [cooldown EXCEPT ![id] = now] ELSE cooldown
               /\ delivered' = IF passes /\ Escalated THEN now ELSE delivered
               /\ alert' = [at |-> now, escalated |-> Escalated]
               /\ recent' = Pruned(Appended(recent))
               /\ strikes' = IF strikes < Threshold[kind] THEN strikes + 1 ELSE strikes
               /\ UNCHANGED <<now, kind>>
<1>1. Cardinality(Pruned(breaker.errors)) < MaxErrors
  BY DEF Fail
<1>2. Cardinality(Kept) \in 0..MaxErrors
  BY <1>1, MovedType
<1>3. Escalated \in BOOLEAN
  BY DEF Escalated, Escalates
<1>4. Identity(Escalated, Cardinality(Kept)) \in Identities
  BY <1>2, <1>3 DEF Identity, Identities
<1> QED
  BY <1>4 DEF Fail, Moved, Escalated, Kept

\* The state has its type.
THEOREM TypeCorrect == Spec => []TypeOK
<1>1. ASSUME Init PROVE TypeOK
  <2>1. Fresh \in Breaker /\ NoStamps \in [Identities -> Time \cup {NoTime}]
    BY DEF Fresh, Breaker, NoStamps
  <2>2. 0 \in Time /\ Cardinality({}) = 0 /\ 0 \in 0..Threshold[kind]
    BY <1>1, FS_EmptySet DEF Time, Init
  <2> QED
    BY <1>1, <2>1, <2>2 DEF Init, TypeOK, Fresh
<1>2. TypeOK /\ [Next]_vars => TypeOK'
  <2> SUFFICES ASSUME TypeOK, [Next]_vars PROVE TypeOK'
    OBVIOUS
  <2>1. CASE Fail
    <3>1. /\ Cardinality(Pruned(breaker.errors)) < MaxErrors
          /\ Cardinality(Pruned(recent)) < MaxErrors
      BY <2>1 DEF Fail
    <3>2. breaker' \in Breaker /\ Cardinality(breaker'.errors) <= MaxErrors
      BY <2>1, <3>1, MovedType, FailNamed DEF Breaker
    <3>3. recent' \subseteq Errors /\ Cardinality(recent') <= MaxErrors
      BY <2>1, <3>1, OneMore DEF Fail, TypeOK
    <3>4. Escalated \in BOOLEAN
      BY DEF Escalated, Escalates
    <3>5. /\ seen' \in [Identities -> Time \cup {NoTime}]
          /\ cooldown' \in [Identities -> Time \cup {NoTime}]
          /\ delivered' \in Time \cup {NoTime}
          /\ alert' \in [at: Time \cup {NoTime}, escalated: BOOLEAN]
      BY <2>1, <3>4, FailNamed DEF TypeOK
    <3>6. strikes' \in 0..Threshold[kind]
      BY <2>1 DEF Fail, TypeOK
    <3> QED
      BY <2>1, <3>2, <3>3, <3>5, <3>6 DEF Fail, TypeOK
  <2>2. CASE Probe
    BY <2>2 DEF Probe, TypeOK, Breaker
  <2>3. CASE Succeed
    BY <2>3, FS_EmptySet DEF Succeed, AfterSuccess, Fresh, TypeOK, Breaker
  <2>4. CASE Restart
    BY <2>4, FS_EmptySet DEF Restart, Fresh, NoStamps, TypeOK, Breaker
  <2>5. CASE Tick
    BY <2>5 DEF Tick, TypeOK, Time
  <2>6. CASE UNCHANGED vars
    BY <2>6 DEF vars, TypeOK
  <2>7. CASE FailUncounted
    BY <2>7 DEF FailUncounted, TypeOK
  <2> QED
    BY <2>1, <2>2, <2>3, <2>4, <2>5, <2>6, <2>7 DEF Next
<1> QED
  BY <1>1, <1>2, PTL DEF Spec

-----------------------------------------------------------------------------
\* A closed breaker remembers every failure of the window since the last recovery,
\* fewer than open it; one that is not closed has had its strikes.
Remembers ==
    IF breaker.state = "CLOSED"
    THEN /\ breaker.errors = recent
         /\ Cardinality(recent) < Threshold[kind]
         /\ Cardinality(recent) <= strikes
    ELSE /\ strikes = Threshold[kind]
         /\ kind # "service_error" => alert.escalated

\* A failure opens a closed breaker when its list, with the failure, reaches the
\* threshold, and by then there were as many strikes.
LEMMA FailRemembers == ASSUME TypeOK, Remembers, Fail PROVE Remembers'
<1>0. /\ now \in Time /\ kind \in Kinds /\ kind' = kind
      /\ recent \in SUBSET Errors /\ breaker.errors \in SUBSET Errors
      /\ breaker.state \in {"CLOSED", "OPEN", "HALF_OPEN"}
      /\ Threshold[kind] \in Nat \ {0} /\ strikes \in 0..Threshold[kind]
      /\ Cardinality(Pruned(breaker.errors)) < MaxErrors
      /\ Cardinality(Pruned(recent)) < MaxErrors
  BY DEF TypeOK, Breaker, Fail
<1>1. /\ breaker' = [Moved EXCEPT !.errors = Kept] /\ Moved \in Breaker
      /\ alert'.escalated = Escalated
      /\ recent' = Pruned(Appended(recent))
      /\ strikes' = IF strikes < Threshold[kind] THEN strikes + 1 ELSE strikes
  BY <1>0, FailNamed, MovedType
<1>2. breaker'.state = Moved.state /\ breaker'.errors = Kept
  BY <1>1 DEF Breaker
<1>3. CASE breaker.state = "CLOSED"
  <2>1. /\ Cardinality(recent') \in Nat /\ Cardinality(recent) \in Nat
        /\ Cardinality(Pruned(recent)) \in Nat
        /\ Cardinality(recent') = Cardinality(Pruned(recent)) + 1
        /\ Cardinality(Pruned(recent)) <= Cardinality(recent)
    BY <1>0, <1>1, OneMore, PrunedShrinks
  <2>2. Cardinality(recent) <= strikes /\ breaker.errors = recent
    BY <1>3 DEF Remembers
  <2>3. /\ Moved.errors = recent'
        /\ Moved.state = IF Cardinality(recent') >= Threshold[kind] THEN "OPEN" ELSE "CLOSED"
    BY <1>0, <1>1, <1>3, <2>2 DEF Moved, AfterError, Breaker, TypeOK
  <2>4. Kept = recent'
    BY <1>0, <1>1, <2>3, OneMore DEF Kept
  <2>5. CASE Cardinality(recent') >= Threshold[kind]
    <3>1. Moved.state = "OPEN" /\ Escalated
      BY <1>3, <2>3, <2>5 DEF Escalated, Escalates
    <3>2. strikes' = Threshold[kind]
      BY <1>0, <1>1, <2>1, <2>2, <2>5
    <3> QED
      BY <1>0, <1>1, <1>2, <3>1, <3>2 DEF Remembers
  <2>6. CASE Cardinality(recent') < Threshold[kind]
    <3>1. Moved.state = "CLOSED"
      BY <1>0, <2>1, <2>3, <2>6
    <3>2. Cardinality(recent') <= strikes'
      BY <1>0, <1>1, <2>1, <2>2, <2>6
    <3> QED
      BY <1>0, <1>2, <2>4, <2>6, <3>1, <3>2 DEF Remembers
  <2> QED
    BY <1>0, <2>1, <2>5, <2>6
<1>4. CASE breaker.state # "CLOSED"
  <2>1. Moved.state = "OPEN"
    BY <1>0, <1>4 DEF Moved, AfterError, TypeOK, Breaker
  <2>2. kind # "service_error" => Escalated
    BY <2>1 DEF Escalated, Escalates
  <2>3. strikes' = Threshold[kind]
    BY <1>0, <1>1, <1>4 DEF Remembers
  <2> QED
    BY <1>0, <1>1, <1>2, <2>1, <2>2, <2>3 DEF Remembers
<1> QED
  BY <1>3, <1>4

\* So does every step.
LEMMA RemembersStep == TypeOK /\ Remembers /\ [Next]_vars => Remembers'
<1> SUFFICES ASSUME TypeOK, Remembers, [Next]_vars PROVE Remembers'
  OBVIOUS
<1>0. Threshold[kind] \in Nat \ {0} /\ strikes \in 0..Threshold[kind]
  BY DEF TypeOK
<1>1. CASE Fail
  BY <1>1, FailRemembers
<1>2. CASE Probe
  BY <1>2 DEF Probe, CanProbe, Remembers, TypeOK, Breaker
<1>3. CASE Succeed
  <2>1. CASE breaker.state = "HALF_OPEN"
    BY <1>0, <1>3, <2>1, FS_EmptySet DEF Succeed, AfterSuccess, Fresh, Remembers
  <2>2. CASE breaker.state # "HALF_OPEN"
    BY <1>3, <2>2 DEF Succeed, AfterSuccess, Remembers
  <2> QED
    BY <2>1, <2>2
<1>4. CASE Restart
  BY <1>0, <1>4, FS_EmptySet DEF Restart, Fresh, Remembers
<1>5. CASE Tick
  BY <1>5 DEF Tick, Remembers
<1>6. CASE UNCHANGED vars
  BY <1>6 DEF vars, Remembers
<1>7. CASE FailUncounted
  BY <1>7 DEF FailUncounted, Remembers
<1> QED
  BY <1>1, <1>2, <1>3, <1>4, <1>5, <1>6, <1>7 DEF Next

\* It holds from the start.
LEMMA RemembersAlways == Spec => []Remembers
<1>1. ASSUME Init PROVE Remembers
  <2>1. Threshold[kind] \in Nat \ {0}
    BY <1>1 DEF Init
  <2> QED
    BY <1>1, <2>1, FS_EmptySet DEF Init, Fresh, Remembers
<1> QED
  BY <1>1, RemembersStep, TypeCorrect, PTL DEF Spec

\* A crash loop is told as one (CircuitBreaker.record_error and the rules that
\* escalate on its state), for any windows and thresholds.
THEOREM CrashLoopCorrect == Spec => []CrashLoopEscalates
<1>1. TypeOK /\ Remembers => CrashLoopEscalates
  <2> SUFFICES ASSUME TypeOK, Remembers, Cardinality(recent) >= Threshold[kind]
      PROVE  breaker.state # "CLOSED" /\ (kind # "service_error" => alert.escalated)
    BY DEF CrashLoopEscalates
  <2>1. Threshold[kind] \in Nat /\ Cardinality(recent) \in Nat
    BY PrunedShrinks DEF TypeOK
  <2> QED
    BY <2>1 DEF Remembers
<1> QED
  BY <1>1, RemembersAlways, TypeCorrect, PTL

\* No first blip after a recovery is escalated (CircuitBreaker.record_success
\* forgets the errors): the threshold has to be reached again.
THEOREM StrikesCorrect == Spec => []OpensOnStrikesOnly
<1>1. Remembers => OpensOnStrikesOnly
  BY DEF Remembers, OpensOnStrikesOnly
<1> QED
  BY <1>1, RemembersAlways, PTL

-----------------------------------------------------------------------------
\* No stamp of an escalated alert, in memory or durable, is newer than the last
\* delivery of one.
StampsAreDeliveries ==
    /\ delivered <= now
    /\ \A i \in Identities : i[1] => seen[i] <= delivered /\ cooldown[i] <= delivered

\* A failure stamps an escalated identity only as it delivers.  One that is held
\* back is held back by a stamp, that is by a delivery, inside the window.
LEMMA FailDelivers ==
    ASSUME TypeOK, StampsAreDeliveries, Fail
    PROVE  StampsAreDeliveries' /\ EscalationIsDelivered'
<1> DEFINE id == Identity(Escalated, Cardinality(Kept))
           passes == (kind # "service_error" \/ Escalated) /\ ~IsDuplicateAlert(id)
<1>1. /\ id \in Identities
      /\ seen' = IF passes THEN [seen EXCEPT ![id] = now] ELSE seen
      /\ cooldown' = IF passes /\ Recurring THEN [cooldown EXCEPT ![id] = now] ELSE cooldown
      /\ delivered' = IF passes /\ Escalated THEN now ELSE delivered
      /\ alert' = [at |-> now, escalated |-> Escalated]
      /\ kind' = kind
  BY FailNamed
<1>2. id[1] = Escalated
  BY DEF Identity
<1>3. (Escalated /\ ~passes) => IsDuplicateAlert(id)
  OBVIOUS
<1>d. IsDuplicateAlert(id) =>
        \/ cooldown[id] # NoTime /\ now - cooldown[id] < DedupWindow[kind]
        \/ seen[id] # NoTime /\ now - seen[id] <= DedupWindow[kind]
  BY DEF IsDuplicateAlert
<1> HIDE DEF id, passes
<1>4. /\ now \in Nat /\ delivered \in Int /\ DedupWindow[kind] \in Nat
      /\ delivered \in Nat \cup {NoTime} /\ NoTime = -1
      /\ seen \in [Identities -> Nat \cup {NoTime}]
      /\ cooldown \in [Identities -> Nat \cup {NoTime}]
  BY DEF TypeOK, Time, NoTime
<1>5. delivered' <= now /\ delivered <= delivered'
  BY <1>1, <1>4 DEF StampsAreDeliveries
<1>6. StampsAreDeliveries'
  <2> SUFFICES ASSUME NEW i \in Identities, i[1]
      PROVE  seen'[i] <= delivered' /\ cooldown'[i] <= delivered'
    BY <1>1, <1>5, FailNamed DEF StampsAreDeliveries
  <2>1. seen[i] <= delivered /\ cooldown[i] <= delivered
    BY DEF StampsAreDeliveries
  <2>2. CASE passes /\ Escalated
    BY <1>1, <1>4, <1>5, <2>1, <2>2
  <2>3. CASE passes /\ ~Escalated
    BY <1>1, <1>2, <1>4, <2>1, <2>3
  <2>4. CASE ~passes
    BY <1>1, <2>1, <2>4
  <2> QED
    BY <2>2, <2>3, <2>4
<1>7. EscalationIsDelivered'
  <2> SUFFICES ASSUME Escalated
      PROVE  delivered' # NoTime /\ now - delivered' <= DedupWindow[kind]
    BY <1>1 DEF EscalationIsDelivered
  <2>1. CASE passes
    BY <1>1, <1>4, <2>1
  <2>2. CASE ~passes
    <3>1. seen[id] <= delivered /\ cooldown[id] <= delivered
      BY <1>1, <1>2 DEF StampsAreDeliveries
    <3>2. /\ seen[id] \in Nat \cup {NoTime} /\ cooldown[id] \in Nat \cup {NoTime}
          /\ delivered' = delivered
      BY <1>1, <1>4, <2>2
    <3> QED
      BY <1>3, <1>d, <1>4, <2>2, <3>1, <3>2
  <2> QED
    BY <2>1, <2>2
<1> QED
  BY <1>6, <1>7

\* The cooldown of the milder alerts never swallows the escalation
\* (_is_duplicate_alert over the identity of the alert's details), for any windows,
\* across redeploys.
THEOREM EscalationCorrect == Spec => []EscalationIsDelivered
<1> DEFINE Inv == StampsAreDeliveries /\ EscalationIsDelivered
<1>1. ASSUME Init PROVE Inv
  <2>1. \A i \in Identities : seen[i] = -1 /\ cooldown[i] = -1
    BY <1>1 DEF Init, NoStamps, NoTime
  <2> QED
    BY <1>1, <2>1 DEF Init, StampsAreDeliveries, EscalationIsDelivered, NoTime
<1>2. TypeOK /\ Inv /\ [Next]_vars => Inv'
  <2> SUFFICES ASSUME TypeOK, Inv, [Next]_vars PROVE Inv'
    OBVIOUS
  <2>1. CASE Fail
    BY <2>1, FailDelivers
  <2>2. CASE Probe
    BY <2>2 DEF Probe, StampsAreDeliveries, EscalationIsDelivered
  <2>3. CASE Succeed
    BY <2>3 DEF Succeed, StampsAreDeliveries, EscalationIsDelivered
  <2>4. CASE Restart
    <3>1. \A i \in Identities : seen'[i] <= delivered
      BY <2>4 DEF Restart, NoStamps, NoTime, TypeOK, Time
    <3> QED
      BY <2>4, <3>1 DEF Restart, StampsAreDeliveries, EscalationIsDelivered
  <2>5. CASE Tick
    <3>1. delivered <= now + 1
      BY DEF StampsAreDeliveries, TypeOK, Time, NoTime
    <3> QED
      BY <2>5, <3>1 DEF Tick, StampsAreDeliveries, EscalationIsDelivered
  <2>6. CASE UNCHANGED vars
    BY <2>6 DEF vars, StampsAreDeliveries, EscalationIsDelivered
  <2>7. CASE FailUncounted
    BY <2>7 DEF FailUncounted, StampsAreDeliveries, EscalationIsDelivered
  <2> QED
    BY <2>1, <2>2, <2>3, <2>4, <2>5, <2>6, <2>7 DEF Next
<1> QED
  BY <1>1, <1>2, TypeCorrect, PTL DEF Spec

=============================================================================
