----------------------------- MODULE LadderRules ----------------------------
(***************************************************************************)
(* The rules of the escalation ladder (escalation_ladder.py): the record   *)
(* kept for an identity, and what one more occurrence does to it.          *)
(*                                                                         *)
(* A record holds moments; the rules only ever compare the time since one  *)
(* with the window, so a moment is represented by its age, which stops     *)
(* growing once it is beyond the window.  The clock is finer than the      *)
(* record: _fmt drops the fraction of the second, so a moment is stored as *)
(* one up to a second earlier, and is as old as that fraction at once.     *)
(* The occurrence count, compared with the threshold alone, stops there,   *)
(* and the rung at MaxRung.                                                *)
(***************************************************************************)
EXTENDS Integers

CONSTANTS
    Second,     (* ticks of the clock in a second                           *)
    Window,     (* window_seconds, in ticks                                 *)
    Threshold,  (* occurrences that escalate                                *)
    MaxRung     (* bound on the rung                                        *)

ASSUME LadderAssumption ==
    /\ Second \in Nat \ {0}
    /\ Window \in Nat /\ Window >= Second
    /\ Threshold \in Nat \ {0}
    /\ MaxRung \in Nat

NoAge == -1
Ages == 0..(Window + 1)
Aged(age) == IF age = NoAge \/ age > Window THEN age ELSE age + 1
Fractions == 0..(Second - 1)
NextFraction(fraction) == IF fraction + 1 = Second THEN 0 ELSE fraction + 1
AtMost(n, bound) == IF n > bound THEN bound ELSE n

\* LadderState.  HALF_OPEN is never stored: the occurrence that finds it
\* escalates in the same call.
Record == [state: {"CLOSED", "OPEN"}, count: 0..Threshold, first: Ages,
           escalated: Ages \cup {NoAge}, rung: 0..MaxRung]

\* _bootstrap_state, of an identity that is seen for the first time.
Bootstrap(fraction) == [state |-> "CLOSED", count |-> 0, first |-> fraction,
                        escalated |-> NoAge, rung |-> 0]

OneTickLater(r) == [r EXCEPT !.first = Aged(@), !.escalated = Aged(@)]

\* The two answers of _advance_state: a transition to OPEN, or "" for none.
\* record_occurrence adds None, for a bucket that cannot be resolved.  To the
\* caller None is as loud as OPEN.
Answers == {"OPEN", "quiet", "None"}

(* An operator whose name has an underscore is a slip: a version of the    *)
(* definition it is named after that the properties must tell apart.       *)

OnProbation_AtOnce(r) == r.state = "OPEN"

\* The cooldown of an open record has elapsed: it ages to HALF_OPEN.
OnProbation(r) == r.state = "OPEN" /\ r.escalated >= Window

\* Occurrences counted in the current window, this one included.
Counted(r) == IF r.first > Window THEN 1 ELSE AtMost(r.count + 1, Threshold)

Escalates_Early(r) == OnProbation(r) \/ (r.state = "CLOSED" /\ Counted(r) >= Threshold - 1)

Escalates(r) ==
    \/ OnProbation(r)
    \/ r.state = "CLOSED" /\ Counted(r) >= Threshold

\* _advance_state: the record after one occurrence, as it will be stored.
Advanced(r, fraction) ==
    [state |-> IF Escalates(r) THEN "OPEN" ELSE r.state,
     count |-> IF r.state = "CLOSED" THEN Counted(r) ELSE AtMost(r.count + 1, Threshold),
     first |-> IF r.state = "CLOSED" /\ r.first > Window THEN fraction ELSE r.first,
     escalated |-> IF Escalates(r) THEN fraction ELSE r.escalated,
     rung |-> IF Escalates(r) THEN AtMost(r.rung + 1, MaxRung) ELSE r.rung]

Answer_StateName(r) == IF Escalates(r) THEN "OPEN" ELSE r.state

Answer(r) == IF Escalates(r) THEN "OPEN" ELSE "quiet"

=============================================================================
