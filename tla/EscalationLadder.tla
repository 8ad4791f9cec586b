-------------------------- MODULE EscalationLadder --------------------------
(***************************************************************************)
(* record_occurrence of escalation_ladder.py: the durable record of each   *)
(* identity is read, advanced and written back, one bucket call each, by   *)
(* revisions of the service that may overlap and may crash in between, on  *)
(* a bucket that may fail.                                                 *)
(***************************************************************************)
EXTENDS LadderRules

CONSTANTS
    Processes,      (* revisions of the service                             *)
    Identities,     (* escalation identities                                *)
    NoIdentity,     (* "no occurrence in hand"                              *)
    StorageMayFail  (* may the bucket be unresolvable, or a call fail?      *)

ASSUME StorageAssumption ==
    /\ NoIdentity \notin Identities
    /\ StorageMayFail \in BOOLEAN

VARIABLES
    ladder,     (* the durable record of each identity                      *)
    stored,     (* the identities that have a record                        *)
    held,       (* held[p]: the advanced record p is about to write         *)
    handling,   (* handling[p]: the identity it is about                    *)
    answer,     (* answer[p]: what the call will return                     *)
    fraction,   (* of the second, gone by on the clock                      *)
    occurred,   (* history: occurrences so far, up to the threshold         *)
    decided,    (* history: decided[p], age of the occurrence p handles, if *)
                (* it escalates                                             *)
    sinceAlarm, (* history: age of the last occurrence answered loudly      *)
    failedOpen, (* history: the identities answered None about              *)
    calm        (* history: no bucket call has failed, no calls overlapped  *)

recordVars == <<ladder, stored, held, handling, answer>>
vars == <<recordVars, fraction, occurred, decided, sinceAlarm, failedOpen, calm>>

TypeOK ==
    /\ ladder \in [Identities -> Record]
    /\ stored \in SUBSET Identities
    /\ held \in [Processes -> Record]
    /\ handling \in [Processes -> Identities \cup {NoIdentity}]
    /\ answer \in [Processes -> Answers]
    /\ fraction \in Fractions
    /\ occurred \in [Identities -> 0..Threshold]
    /\ decided \in [Processes -> Ages \cup {NoAge}]
    /\ sinceAlarm \in [Identities -> Ages \cup {NoAge}]
    /\ failedOpen \in SUBSET Identities
    /\ calm \in BOOLEAN

Init ==
    /\ ladder = [i \in Identities |-> Bootstrap(0)]
    /\ stored = {}
    /\ held = [p \in Processes |-> Bootstrap(0)]
    /\ handling = [p \in Processes |-> NoIdentity]
    /\ answer = [p \in Processes |-> "quiet"]
    /\ fraction = 0
    /\ occurred = [i \in Identities |-> 0]
    /\ decided = [p \in Processes |-> NoAge]
    /\ sinceAlarm = [i \in Identities |-> NoAge]
    /\ failedOpen = {}
    /\ calm = TRUE

Idle(p) == handling[p] = NoIdentity

Occurs(i) == occurred' = [occurred EXCEPT ![i] = AtMost(@ + 1, Threshold)]

\* The bucket cannot be resolved: nothing is recorded, and the answer is None.
Unresolvable(p, i) ==
    /\ StorageMayFail
    /\ Idle(p)
    /\ Occurs(i)
    /\ answer' = [answer EXCEPT ![p] = "None"]
    /\ sinceAlarm' = [sinceAlarm EXCEPT ![i] = 0]
    /\ failedOpen' = failedOpen \cup {i}
    /\ calm' = FALSE
    /\ UNCHANGED <<ladder, stored, held, handling, fraction, decided>>

\* The record is read and advanced.  _read_state swallows a failed read, which
\* then looks like an identity that was never seen.
Read(p, i) ==
    /\ Idle(p)
    /\ Occurs(i)
    /\ \E fails \in {FALSE, StorageMayFail} :
        LET r == IF fails \/ i \notin stored THEN Bootstrap(fraction) ELSE ladder[i]
        IN  /\ held' = [held EXCEPT ![p] = Advanced(r, fraction)]
            /\ answer' = [answer EXCEPT ![p] = Answer(r)]
            /\ decided' = [decided EXCEPT ![p] = IF Answer(r) = "OPEN" THEN 0 ELSE NoAge]
            /\ calm' = (calm /\ ~fails /\ \A q \in Processes : Idle(q))
    /\ handling' = [handling EXCEPT ![p] = i]
    /\ UNCHANGED <<ladder, stored, fraction, sinceAlarm, failedOpen>>

\* The advanced record is written back and the transition returned, whether or
\* not the write succeeded.
Write(p) ==
    /\ ~Idle(p)
    /\ \E fails \in {FALSE, StorageMayFail} :
        /\ ladder' = IF fails THEN ladder ELSE [ladder EXCEPT ![handling[p]] = held[p]]
        /\ stored' = IF fails THEN stored ELSE stored \cup {handling[p]}
        /\ calm' = (calm /\ ~fails)
    /\ sinceAlarm' = IF answer[p] = "OPEN"
                     THEN [sinceAlarm EXCEPT ![handling[p]] = decided[p]]
                     ELSE sinceAlarm
    /\ handling' = [handling EXCEPT ![p] = NoIdentity]
    /\ UNCHANGED <<held, answer, fraction, occurred, decided, failedOpen>>

\* The revision goes down between the read and the write.
Crash(p) ==
    /\ ~Idle(p)
    /\ handling' = [handling EXCEPT ![p] = NoIdentity]
    /\ UNCHANGED <<ladder, stored, held, answer, fraction, occurred, decided, sinceAlarm,
                   failedOpen, calm>>

Tick ==
    /\ fraction' = NextFraction(fraction)
    /\ ladder' = [i \in Identities |-> OneTickLater(ladder[i])]
    /\ held' = [p \in Processes |-> OneTickLater(held[p])]
    /\ decided' = [p \in Processes |-> Aged(decided[p])]
    /\ sinceAlarm' = [i \in Identities |-> Aged(sinceAlarm[i])]
    /\ UNCHANGED <<stored, handling, answer, occurred, failedOpen, calm>>

Next ==
    \/ \E p \in Processes :
        \/ \E i \in Identities : Unresolvable(p, i) \/ Read(p, i)
        \/ Write(p)
        \/ Crash(p)
    \/ Tick

Spec == Init /\ [][Next]_vars

-----------------------------------------------------------------------------
(* Properties.                                                             *)

\* An identity has been loud before its occurrences came to the threshold only
\* where the bucket could not be resolved and the ladder failed open; an open
\* record, stored or about to be, stands for at least that many real occurrences,
\* whatever the lost updates, failed calls and crashes between them ("occurrences
\* 1-2 stay quiet").
QuietBelowThreshold ==
    /\ \A i \in Identities :
        /\ sinceAlarm[i] # NoAge => occurred[i] = Threshold \/ i \in failedOpen
        /\ ladder[i].count <= occurred[i]
        /\ ladder[i].state = "OPEN" => occurred[i] = Threshold
    /\ \A p \in Processes : ~Idle(p) =>
        /\ held[p].count <= occurred[handling[p]]
        /\ answer[p] = "OPEN" \/ held[p].state = "OPEN" => occurred[handling[p]] = Threshold

\* An open record with its cooldown unelapsed mutes its identity: until a bucket
\* call fails or two revisions overlap, crashes included, the occurrence that
\* raises an alarm comes no more than the fraction of a second that _fmt drops
\* short of a window after the one that raised the last ("no re-fire on every
\* subsequent occurrence").
OneAlarmPerWindow ==
    [][\A p \in Processes, i \in Identities :
        calm' /\ Idle(p) /\ handling'[p] = i /\ answer'[p] = "OPEN" =>
            sinceAlarm[i] = NoAge \/ sinceAlarm[i] > Window - Second]_vars

=============================================================================
