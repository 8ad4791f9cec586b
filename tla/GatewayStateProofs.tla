------------------------ MODULE GatewayStateProofs --------------------------
(* Proofs about GatewayState: its type, that no unacked incident leaves the *)
(* queue, that no step of the escalation is paged twice and that an acked   *)
(* incident is not paged at all, for any set of incidents, any transition   *)
(* table and any policies.                                                  *)
EXTENDS GatewayState, TLAPS

\* The induction: type, queue, and the pages the recorded history accounts for.
IInv == TypeOK /\ NoneForgotten /\ PagesAreRecorded /\ StepsFireOnce

\* A deadline that is stamped is a time.
LEMMA StampedType ==
    ASSUME NEW severity \in Severities, NEW required \in BOOLEAN,
           NEW due \in Nat \cup {None}, now \in Nat
    PROVE  Stamped(severity, required, due) \in Nat \cup {None}
<1>1. Sla[severity] \in Policy
  BY GatewayAssumption
<1>2. Sla[severity].default \in Nat \cup {None}
  BY <1>1 DEF Policy
<1> QED
  BY <1>2 DEF Stamped

\* The verdicts keep envelopes envelopes, and leave the acks and the history be.
LEMMA DisputedKeeps ==
    ASSUME NEW env \in Envelope
    PROVE  /\ Disputed(env) \in Envelope
           /\ Disputed(env).due = env.due
           /\ Disputed(env).acked = env.acked
           /\ Disputed(env).sent = env.sent
<1>1. SafeMode \in States /\ Critical \in Severities
  BY GatewayAssumption
<1> QED
  BY <1>1 DEF Disputed, Envelope

LEMMA EscalatedKeeps ==
    ASSUME NEW env \in Envelope, now \in Nat
    PROVE  /\ Escalated(env) \in Envelope
           /\ Escalated(env).acked = env.acked
           /\ Escalated(env).sent = env.sent
  BY GatewayAssumption DEF Escalated, Envelope

LEMMA RecordedKeeps ==
    ASSUME NEW env \in Envelope, NEW step \in Steps
    PROVE  /\ Recorded(env, step) \in Envelope
           /\ Recorded(env, step).due = env.due
           /\ Recorded(env, step).acked = env.acked
           /\ Recorded(env, step).sent = env.sent \cup {step}
  BY DEF Recorded, Envelope

\* An incident is only paged a step that is not in its history.
LEMMA NextStepIsNew ==
    ASSUME NEW env \in Envelope, NextStep(env) # "none"
    PROVE  NextStep(env) \in Steps /\ NextStep(env) \notin env.sent
  BY DEF NextStep, Crossed, Steps

LEMMA InitInductive == Init => IInv
  BY DEF Init, IInv, TypeOK, NoneForgotten, PagesAreRecorded, StepsFireOnce, Known, NoPages, Steps

\* Every action preserves the induction.
LEMMA StepInductive == IInv /\ [Next]_vars => IInv'
<1> SUFFICES ASSUME IInv, [Next]_vars
             PROVE  IInv'
  OBVIOUS
<1> USE DEF IInv
<1>0. /\ now \in Nat
      /\ incidents \in [Keys -> Envelope \cup {Unknown}]
      /\ pages \in [Keys -> [Steps -> 0..2]]
      /\ \A k \in Known : incidents[k] \in Envelope
  BY DEF TypeOK, Known
<1>1. ASSUME NEW k \in Keys, PostIncident(k)
      PROVE  IInv'
  <2>1. PICK state \in States, severity \in Severities, required \in BOOLEAN,
             acked \in BOOLEAN, due \in {None, now} :
          LET env == [state |-> state, severity |-> severity, acked |-> acked,
                      due |-> Stamped(severity, required, due),
                      operational |-> FALSE, sent |-> {}]
          IN  /\ incidents' = [incidents EXCEPT ![k] = env]
              /\ queue' = Enqueued(queue, k, env)
              /\ silenced' = silenced \ {k}
              /\ pages' = [pages EXCEPT ![k] = NoPages]
              /\ UNCHANGED now
    BY <1>1 DEF PostIncident
  <2> DEFINE env == [state |-> state, severity |-> severity, acked |-> acked,
                     due |-> Stamped(severity, required, due),
                     operational |-> FALSE, sent |-> {}]
  <2>2. env \in Envelope
    <3>1. Stamped(severity, required, due) \in Nat \cup {None}
      BY <1>0, StampedType
    <3> QED
      BY <3>1 DEF Envelope
  <2>3. NoPages \in [Steps -> 0..2] /\ \A s \in Steps : NoPages[s] = 0
    BY DEF NoPages
  <2> HIDE DEF env
  <2>4. TypeOK'
    BY <2>1, <2>2, <2>3 DEF TypeOK, Enqueued, env
  <2>5. NoneForgotten'
    BY <2>1, <2>2, <1>0 DEF NoneForgotten, Known, Enqueued, env
  <2>6. PagesAreRecorded'
    BY <2>1, <2>2, <2>3, <1>0, UnknownAssumption DEF PagesAreRecorded, Known, env
  <2>7. StepsFireOnce'
    BY <2>1, <2>3, <1>0 DEF StepsFireOnce
  <2> QED
    BY <2>4, <2>5, <2>6, <2>7
<1>2. ASSUME NEW k \in Keys, PostOperationalAck(k)
      PROVE  IInv'
  <2>1. incidents[k] \in Envelope
    BY <1>0, <1>2 DEF PostOperationalAck
  <2>2. /\ incidents' = [incidents EXCEPT ![k] = [incidents[k] EXCEPT !.operational = TRUE]]
        /\ UNCHANGED <<now, queue, silenced, pages>>
        /\ k \in Known
    BY <1>2 DEF PostOperationalAck
  <2>3. [incidents[k] EXCEPT !.operational = TRUE] \in Envelope
    BY <2>1 DEF Envelope
  <2>4. TypeOK'
    BY <2>2, <2>3 DEF TypeOK
  <2>5. Known' = Known
    BY <1>0, <2>2, <2>3, UnknownAssumption DEF Known
  <2>6. NoneForgotten'
    BY <1>0, <2>1, <2>2, <2>5 DEF NoneForgotten, Envelope
  <2>7. PagesAreRecorded' /\ StepsFireOnce'
    BY <1>0, <2>1, <2>2, <2>5 DEF PagesAreRecorded, StepsFireOnce, Envelope
  <2> QED
    BY <2>4, <2>6, <2>7
<1>3. ASSUME NEW k \in Keys, PostAuditAck(k)
      PROVE  IInv'
  <2>1. incidents[k] \in Envelope
    BY <1>0, <1>3 DEF PostAuditAck
  <2>2. /\ incidents' = [incidents EXCEPT ![k] = [incidents[k] EXCEPT !.acked = TRUE]]
        /\ queue' = queue \ {k}
        /\ silenced' = silenced \cup {k}
        /\ UNCHANGED <<now, pages>>
        /\ k \in Known
    BY <1>3 DEF PostAuditAck
  <2>3. [incidents[k] EXCEPT !.acked = TRUE] \in Envelope
    BY <2>1 DEF Envelope
  <2>4. TypeOK'
    BY <2>2, <2>3 DEF TypeOK
  <2>5. Known' = Known
    BY <1>0, <2>2, <2>3, UnknownAssumption DEF Known
  <2>6. NoneForgotten'
    BY <1>0, <2>1, <2>2, <2>5 DEF NoneForgotten, Envelope
  <2>7. PagesAreRecorded' /\ StepsFireOnce'
    BY <1>0, <2>1, <2>2, <2>5 DEF PagesAreRecorded, StepsFireOnce, Envelope
  <2> QED
    BY <2>4, <2>6, <2>7
<1>4. ASSUME NEW k \in Keys, PostDispute(k)
      PROVE  IInv'
  <2>1. incidents[k] \in Envelope
    BY <1>0, <1>4 DEF PostDispute
  <2>2. /\ incidents' = [incidents EXCEPT ![k] = Disputed(incidents[k])]
        /\ UNCHANGED <<now, queue, silenced, pages>>
        /\ k \in Known
    BY <1>4 DEF PostDispute
  <2>3. /\ Disputed(incidents[k]) \in Envelope
        /\ Disputed(incidents[k]).due = incidents[k].due
        /\ Disputed(incidents[k]).acked = incidents[k].acked
        /\ Disputed(incidents[k]).sent = incidents[k].sent
    BY <2>1, DisputedKeeps
  <2>4. TypeOK'
    BY <2>2, <2>3 DEF TypeOK
  <2>5. Known' = Known
    BY <1>0, <2>2, <2>3, UnknownAssumption DEF Known
  <2>6. NoneForgotten'
    BY <1>0, <2>2, <2>3, <2>5 DEF NoneForgotten
  <2>7. PagesAreRecorded' /\ StepsFireOnce'
    BY <1>0, <2>2, <2>3, <2>5 DEF PagesAreRecorded, StepsFireOnce
  <2> QED
    BY <2>4, <2>6, <2>7
<1>5. ASSUME NEW k \in Keys, PostEscalate(k)
      PROVE  IInv'
  <2> DEFINE env == Escalated(incidents[k])
  <2>1. incidents[k] \in Envelope
    BY <1>0, <1>5 DEF PostEscalate
  <2>2. /\ incidents' = [incidents EXCEPT ![k] = env]
        /\ queue' = Requeued(queue, k, env)
        /\ UNCHANGED <<now, silenced, pages>>
        /\ k \in Known
    BY <1>5 DEF PostEscalate
  <2>3. env \in Envelope /\ env.acked = incidents[k].acked /\ env.sent = incidents[k].sent
    BY <1>0, <2>1, EscalatedKeeps
  <2> HIDE DEF env
  <2>4. TypeOK'
    BY <2>2, <2>3 DEF TypeOK, Requeued, Enqueued
  <2>5. Known' = Known
    BY <1>0, <2>2, <2>3, UnknownAssumption DEF Known
  <2>6. NoneForgotten'
    BY <1>0, <2>2, <2>3, <2>5 DEF NoneForgotten, Requeued, Enqueued
  <2>7. PagesAreRecorded' /\ StepsFireOnce'
    BY <1>0, <2>2, <2>3, <2>5 DEF PagesAreRecorded, StepsFireOnce
  <2> QED
    BY <2>4, <2>6, <2>7
<1>6. ASSUME EscalationTick
      PROVE  IInv'
  <2>1. PICK paged \in SUBSET Breaching :
          /\ incidents' = [k \in Keys |->
                IF k \in paged THEN Recorded(incidents[k], NextStep(incidents[k]))
                               ELSE incidents[k]]
          /\ pages' = [k \in Keys |->
                IF k \in paged
                THEN [pages[k] EXCEPT ![NextStep(incidents[k])] = IF @ < 2 THEN @ + 1 ELSE @]
                ELSE pages[k]]
          /\ UNCHANGED <<now, queue, silenced>>
    BY <1>6 DEF EscalationTick
  <2>2. \A k \in paged : /\ k \in Known /\ incidents[k] \in Envelope
                         /\ NextStep(incidents[k]) # "none"
    BY <1>0 DEF Breaching, Pending
  <2>3. \A k \in paged : /\ NextStep(incidents[k]) \in Steps
                         /\ NextStep(incidents[k]) \notin incidents[k].sent
    BY <2>2, NextStepIsNew
  <2>4. \A k \in paged :
          LET env == Recorded(incidents[k], NextStep(incidents[k]))
          IN  /\ env \in Envelope /\ env.due = incidents[k].due /\ env.acked = incidents[k].acked
              /\ env.sent = incidents[k].sent \cup {NextStep(incidents[k])}
    BY <2>2, <2>3, RecordedKeeps
  <2>5. \A k \in paged : pages[k][NextStep(incidents[k])] = 0
    BY <1>0, <2>2, <2>3 DEF PagesAreRecorded, Known
  <2>6. \A k \in paged, s \in Steps :
          pages'[k][s] = IF s = NextStep(incidents[k]) THEN 1 ELSE pages[k][s]
    BY <1>0, <2>1, <2>2, <2>3, <2>5 DEF Known
  <2>7. \A k \in Keys : k \notin paged => pages'[k] = pages[k] /\ incidents'[k] = incidents[k]
    BY <2>1
  <2>8. \A k \in paged : incidents'[k] = Recorded(incidents[k], NextStep(incidents[k]))
    BY <2>1, <2>2 DEF Known
  <2>9. TypeOK'
    <3>1. \A k \in Keys : pages'[k] \in [Steps -> 0..2]
      BY <1>0, <2>1, <2>3, <2>5
    <3>2. pages' \in [Keys -> [Steps -> 0..2]]
      BY <2>1, <3>1
    <3>3. incidents' \in [Keys -> Envelope \cup {Unknown}]
      BY <1>0, <2>1, <2>4
    <3> QED
      BY <2>1, <3>2, <3>3 DEF TypeOK
  <2>10. Known' = Known
    BY <1>0, <2>2, <2>4, <2>7, <2>8, UnknownAssumption DEF Known
  <2>11. NoneForgotten'
    BY <2>1, <2>4, <2>7, <2>8, <2>10 DEF NoneForgotten, Known
  <2>12. PagesAreRecorded'
    <3> SUFFICES ASSUME NEW k \in Keys, NEW s \in Steps, pages'[k][s] > 0
                 PROVE  k \in Known' /\ s \in incidents'[k].sent
      BY DEF PagesAreRecorded
    <3>1. CASE k \in paged
      BY <2>2, <2>4, <2>6, <2>8, <2>10, <3>1 DEF PagesAreRecorded
    <3>2. CASE k \notin paged
      BY <2>7, <2>10, <3>2 DEF PagesAreRecorded
    <3> QED
      BY <3>1, <3>2
  <2>13. StepsFireOnce'
    BY <2>6, <2>7 DEF StepsFireOnce
  <2> QED
    BY <2>9, <2>11, <2>12, <2>13
<1>7. CASE Restart
  BY <1>7 DEF Restart, TypeOK, NoneForgotten, PagesAreRecorded, StepsFireOnce, Known, NoPages
<1>8. CASE Tick
  BY <1>8 DEF Tick, TypeOK, NoneForgotten, PagesAreRecorded, StepsFireOnce, Known
<1>9. CASE UNCHANGED vars
  BY <1>9 DEF vars, TypeOK, NoneForgotten, PagesAreRecorded, StepsFireOnce, Known
<1> QED
  BY <1>1, <1>2, <1>3, <1>4, <1>5, <1>6, <1>7, <1>8, <1>9 DEF Next

\* The state of the gateway keeps its type.
THEOREM TypeCorrect == Spec => []TypeOK
<1>1. IInv => TypeOK
  BY DEF IInv
<1> QED
  BY InitInductive, StepInductive, <1>1, PTL DEF Spec

\* No verdict, re-registration or escalation takes an unacked incident with a
\* deadline out of the queue.
THEOREM QueueCorrect == Spec => []NoneForgotten
<1>1. IInv => NoneForgotten
  BY DEF IInv
<1> QED
  BY InitInductive, StepInductive, <1>1, PTL DEF Spec

\* Each step of the escalation fires at most once per registration.
THEOREM StepsCorrect == Spec => []StepsFireOnce
<1>1. IInv => StepsFireOnce
  BY DEF IInv
<1> QED
  BY InitInductive, StepInductive, <1>1, PTL DEF Spec

\* The human's word stands: an incident silenced since it was last registered is
\* known, and its envelope says so.
AckStands == \A k \in silenced : k \in Known /\ incidents[k].acked

\* Every action preserves it: registering an incident lifts the silence with the
\* ack, and no verdict or page takes the ack back.
LEMMA AckStandsStep == TypeOK /\ AckStands /\ [Next]_vars => AckStands'
<1> SUFFICES ASSUME TypeOK, AckStands, [Next]_vars
             PROVE  AckStands'
  OBVIOUS
<1>0. /\ now \in Nat /\ silenced \subseteq Keys
      /\ incidents \in [Keys -> Envelope \cup {Unknown}]
      /\ \A k \in Known : incidents[k] \in Envelope
      /\ \A k \in silenced : k \in Keys /\ incidents[k] \in Envelope /\ incidents[k].acked
  BY DEF TypeOK, Known, AckStands
<1>a. ASSUME NEW k \in Keys, NEW env \in Envelope, silenced' = silenced,
             incidents' = [incidents EXCEPT ![k] = env],
             k \in Known, env.acked = incidents[k].acked
      PROVE  AckStands'
  BY <1>0, <1>a, UnknownAssumption DEF AckStands, Known
<1>1. ASSUME NEW k \in Keys, PostIncident(k)
      PROVE  AckStands'
  <2>1. /\ silenced' = silenced \ {k}
        /\ \A j \in Keys \ {k} : incidents'[j] = incidents[j]
    BY <1>0, <1>1 DEF PostIncident
  <2> QED
    BY <1>0, <2>1, UnknownAssumption DEF AckStands, Known
<1>2. ASSUME NEW k \in Keys, PostOperationalAck(k)
      PROVE  AckStands'
  <2>1. incidents[k] \in Envelope
    BY <1>0, <1>2 DEF PostOperationalAck
  <2> DEFINE env == [incidents[k] EXCEPT !.operational = TRUE]
  <2>2. env \in Envelope /\ env.acked = incidents[k].acked
    BY <2>1 DEF Envelope
  <2>3. /\ silenced' = silenced /\ k \in Known
        /\ incidents' = [incidents EXCEPT ![k] = env]
    BY <1>2 DEF PostOperationalAck
  <2> HIDE DEF env
  <2> QED
    BY <1>a, <2>2, <2>3
<1>3. ASSUME NEW k \in Keys, PostAuditAck(k)
      PROVE  AckStands'
  <2>1. incidents[k] \in Envelope
    BY <1>0, <1>3 DEF PostAuditAck
  <2> DEFINE env == [incidents[k] EXCEPT !.acked = TRUE]
  <2>2. env \in Envelope /\ env.acked
    BY <2>1 DEF Envelope
  <2>3. silenced' = silenced \cup {k} /\ incidents' = [incidents EXCEPT ![k] = env]
    BY <1>3 DEF PostAuditAck
  <2> HIDE DEF env
  <2> QED
    BY <1>0, <2>2, <2>3, UnknownAssumption DEF AckStands, Known
<1>4. ASSUME NEW k \in Keys, PostDispute(k)
      PROVE  AckStands'
  <2>1. k \in Known /\ silenced' = silenced
        /\ incidents' = [incidents EXCEPT ![k] = Disputed(incidents[k])]
    BY <1>4 DEF PostDispute
  <2>2. Disputed(incidents[k]) \in Envelope /\ Disputed(incidents[k]).acked = incidents[k].acked
    BY <1>0, <2>1, DisputedKeeps
  <2> QED
    BY <1>a, <2>1, <2>2
<1>5. ASSUME NEW k \in Keys, PostEscalate(k)
      PROVE  AckStands'
  <2>1. k \in Known /\ silenced' = silenced
        /\ incidents' = [incidents EXCEPT ![k] = Escalated(incidents[k])]
    BY <1>5 DEF PostEscalate
  <2>2. Escalated(incidents[k]) \in Envelope /\ Escalated(incidents[k]).acked = incidents[k].acked
    BY <1>0, <2>1, EscalatedKeeps
  <2> QED
    BY <1>a, <2>1, <2>2
<1>6. ASSUME EscalationTick
      PROVE  AckStands'
  <2>1. PICK paged \in SUBSET Breaching :
          /\ incidents' = [k \in Keys |->
                IF k \in paged THEN Recorded(incidents[k], NextStep(incidents[k]))
                               ELSE incidents[k]]
          /\ silenced' = silenced
    BY <1>6 DEF EscalationTick
  <2>2. \A k \in silenced : k \notin paged
    BY <1>0 DEF Breaching, Pending
  <2>3. \A k \in silenced : incidents'[k] = incidents[k]
    BY <1>0, <2>1, <2>2
  <2> QED
    BY <1>0, <2>1, <2>3, UnknownAssumption DEF AckStands, Known
<1>7. CASE Restart
  BY <1>7 DEF Restart, AckStands
<1>8. CASE Tick
  BY <1>8 DEF Tick, AckStands, Known
<1>9. CASE UNCHANGED vars
  BY <1>9 DEF vars, AckStands, Known
<1> QED
  BY <1>1, <1>2, <1>3, <1>4, <1>5, <1>6, <1>7, <1>8, <1>9 DEF Next

\* Once a human has audit-acked an incident nobody is paged about it until it is
\* registered again, whatever verdicts follow.
THEOREM SilenceCorrect == Spec => SilentAfterAck
<1>1. Init => AckStands
  BY DEF Init, AckStands
<1>2. TypeOK /\ AckStands /\ [Next]_vars =>
        [\A k \in silenced \cap silenced' : pages'[k] = pages[k]]_vars
  <2> SUFFICES ASSUME TypeOK, AckStands, [Next]_vars,
                      NEW k \in silenced, k \in silenced'
               PROVE  pages'[k] = pages[k]
    OBVIOUS
  <2>0. k \in Keys /\ incidents[k].acked /\ pages \in [Keys -> [Steps -> 0..2]]
    BY DEF TypeOK, AckStands
  <2>1. ASSUME NEW j \in Keys, PostIncident(j)
        PROVE  pages'[k] = pages[k]
    <3>1. silenced' = silenced \ {j} /\ pages' = [pages EXCEPT ![j] = NoPages]
      BY <2>1 DEF PostIncident
    <3> QED
      BY <2>0, <3>1
  <2>2. ASSUME NEW j \in Keys,
               PostOperationalAck(j) \/ PostAuditAck(j) \/ PostDispute(j) \/ PostEscalate(j)
        PROVE  pages'[k] = pages[k]
    BY <2>2 DEF PostOperationalAck, PostAuditAck, PostDispute, PostEscalate
  <2>3. CASE EscalationTick
    <3>1. k \notin Breaching
      BY <2>0 DEF Breaching, Pending
    <3> QED
      BY <2>0, <2>3, <3>1 DEF EscalationTick
  <2>4. CASE Restart
    BY <2>4 DEF Restart
  <2>5. CASE Tick \/ UNCHANGED vars
    BY <2>5 DEF Tick, vars
  <2> QED
    BY <2>1, <2>2, <2>3, <2>4, <2>5 DEF Next
<1> QED
  BY <1>1, <1>2, AckStandsStep, TypeCorrect, PTL DEF Spec, SilentAfterAck

=============================================================================
