---------------------------- MODULE IncidentGate ----------------------------
(***************************************************************************)
(* What the incident path makes of an envelope (route_incident, with the   *)
(* recovery-verification gate in front of AUTO_ACTION_SUCCEEDED) and of a  *)
(* legacy alert wrapped into one.  A payload's about is the incident key,  *)
(* its what the state, its reading the rung of the severity ladder, its    *)
(* stamp the event id.  The problem type is part of the key.               *)
(***************************************************************************)
EXTENDS TypedHandlers, FiniteSetsExt

CONSTANTS
  Transitions,  \* the moves between incident states the contract allows
  Services      \* those that registered a recovery callback

SeverityLadder == <<"INFO", "WARN", "HIGH", "CRITICAL">>

\* One rung up; CRITICAL stays CRITICAL.
Escalated(rung) == Min({rung + 1, Len(SeverityLadder)})

\* What people are told of an incident is its state.  The event id stays the
\* same through the gate, so it tells one incident's life from the next only.
Incident(state, rung, p) == <<Alert("incident", state, SeverityLadder[rung], p.stamp, p)>>

\* What a callback can do.
Verdicts == {"passes", "fails", "raises"}

\* RecoveryVerifier.verify: every service passes; a callback that raises has
\* failed all its checks; with none registered the gate is open.
AllPassed(verdicts) == \A s \in Services : verdicts[s] = "passes"

Moves(from, to) == <<from, to>> \in Transitions

\* A move the contract does not allow ends the handling with nothing told.
Recovery(p, verdicts) ==
  LET to == IF AllPassed(verdicts) THEN "RECOVERY_CONFIRMED" ELSE "RECOVERY_UNCERTAIN"
      rung == IF AllPassed(verdicts) THEN p.reading ELSE Escalated(p.reading)
  IN  IF /\ Moves("AUTO_ACTION_SUCCEEDED", "RECOVERY_VERIFICATION_STARTED")
         /\ Moves("RECOVERY_VERIFICATION_STARTED", to)
      THEN Incident(to, rung, p) ELSE <<>>

RouteIncident(p, verdicts) ==
  IF p.what = "AUTO_ACTION_SUCCEEDED" THEN Recovery(p, verdicts) ELSE Incident(p.what, p.reading, p)

\* _normalize_severity: aliases first, anything unknown is a warning.
Rung(word) == CASE word \in {"CRITICAL", "ERROR", "P0", "SEV0"} -> 4
                [] word \in {"HIGH", "P1", "SEV1"} -> 3
                [] word \in {"INFO", "P3", "SEV3"} -> 1
                [] OTHER -> 2

\* wrap_legacy_alert: an alert without an event id takes the incident key for
\* one (stamp 0), the same at every repetition.
RouteLegacy(p) == Incident("DETECTED", Rung(p.what), p)
============================================================================
