-------------------------- MODULE DependencyHealth --------------------------
(***************************************************************************)
(* Outages of the dependencies: the loop that probes them, the rule that   *)
(* grades an outage, the handler that tells people and arms the kill       *)
(* switch, and the registry that follows the kill-switch bus, which alerts *)
(* of the router and the operators drive too.  All of it is in memory, and *)
(* a restart forgets it.                                                   *)
(*                                                                         *)
(* Time is counted in probe intervals.  The rest of the event loop may run *)
(* between two probes of a pass, never inside one: only the probe awaits.  *)
(***************************************************************************)
EXTENDS Naturals, FiniteSets

CONSTANTS
  Deps,        \* the dependencies are 1 .. Deps, probed in that order
  Policy,      \* of each: its recovery times, whether it has a fallback, its scope
  Threshold,   \* failed probes before the outage clock starts
  Scope,       \* of halts
  Key,         \* what a scoped halt may name
  NoKey,       \* the wildcard, None in the code
  NoScope,     \* a policy that does not opt in
  MaxAge       \* ages stop counting here

Dep == 1 .. Deps

ASSUME DependencyAssumption ==
  /\ Deps \in Nat \ {0} /\ Threshold \in Nat \ {0} /\ MaxAge \in Nat
  /\ "GLOBAL" \in Scope /\ NoKey \notin Key /\ NoScope \notin Scope
  /\ Policy \in [Dep -> [expected : Nat \ {0}, warning : Nat, human : Nat, hard : Nat \ {0},
                         fallback : BOOLEAN, scope : Scope \cup {NoScope}]]
  /\ \A d \in Dep : Policy[d].expected <= MaxAge /\ Policy[d].hard <= MaxAge

VARIABLES
  up,      \* the dependencies themselves
  cursor,  \* the dependency the pass probes next; 0 while the loop sleeps
  fails,   \* consecutive failed probes, counted up to the threshold
  outage,  \* age of the outage clock, or NoOutage
  told,    \* the last word people had of each dependency
  active,  \* the registry: the keys halted in each scope
  unseen   \* history: time since the last successful probe

vars == <<up, cursor, fails, outage, told, active, unseen>>

NoOutage == MaxAge + 1
Keys == Key \cup {NoKey}
Alarms == {"WARN", "SEV1", "CRITICAL"}

\* "lost" is a recovery that was dropped, "orphaned" an alarm whose clock was.
Words == Alarms \cup {"nothing", "recovered", "lost", "orphaned"}

\* Longer than any outage clock can be with its threshold before it.
MaxUnseen == MaxAge + Threshold

TypeOK == /\ up \in [Dep -> BOOLEAN]
          /\ cursor \in 0 .. Deps
          /\ fails \in [Dep -> 0 .. Threshold]
          /\ outage \in [Dep -> 0 .. NoOutage]
          /\ told \in [Dep -> Words]
          /\ active \in [Scope -> SUBSET Keys]
          /\ unseen \in [Dep -> 0 .. MaxUnseen]

Init == /\ up = [d \in Dep |-> TRUE]
        /\ cursor = 0
        /\ fails = [d \in Dep |-> 0]
        /\ outage = [d \in Dep |-> NoOutage]
        /\ told = [d \in Dep |-> "nothing"]
        /\ active = [s \in Scope |-> {}]
        /\ unseen = [d \in Dep |-> 0]

(***************************************************************************)
(* The rules.  An underscored operator is a wrong version of the           *)
(* definition it is named after that the properties must tell apart.       *)
(***************************************************************************)
WarnAt(d) == Policy[d].expected + Policy[d].warning
Sev1At(d) == WarnAt(d) + Policy[d].human

Severe_NoFloor(d, age) == age >= Policy[d].hard \/ ~Policy[d].fallback

\* Without a fallback an outage is severe as soon as it outlasts the
\* expected recovery, but not before.
Severe(d, age) == \/ age >= Policy[d].hard
                  \/ ~Policy[d].fallback /\ age >= Policy[d].expected

Level(d, age) == CASE age = 0 -> "none"
                   [] age > 0 /\ Severe(d, age) -> "CRITICAL"
                   [] age > 0 /\ ~Severe(d, age) /\ age >= Sev1At(d) -> "SEV1"
                   [] age > 0 /\ ~Severe(d, age) /\ age < Sev1At(d) /\ age >= WarnAt(d) -> "WARN"
                   [] OTHER -> "none"

TellsRecovery_Warned(d, age) == age >= WarnAt(d)

\* Any outage that was clocked is told to be over.
TellsRecovery(d, age) == age > 0

(***************************************************************************)
(* The bus and the registry that follows it.                               *)
(***************************************************************************)
Fire(s, k) == active' = [active EXCEPT ![s] = @ \cup {k}]

\* Clearing one key leaves the others of the scope halted.
Cleared(s, k) == active[s] \ {k}

\* An operator's clear of the bus; None clears the wildcard alone.
Clear(s, k) == /\ k \in active[s]
               /\ active' = [active EXCEPT ![s] = Cleared(s, k)]
               /\ UNCHANGED <<up, cursor, fails, outage, told, unseen>>

\* A scoped alert that does not name its key halts the whole scope.
ScopeKey(s, named) == IF s = "GLOBAL" THEN NoKey ELSE named

\* publish_kill_switch_event, after the channels of a KILL_SWITCH_* alert;
\* what the bus raises is swallowed.
KillSwitchAlert(s, named) ==
  /\ Fire(s, ScopeKey(s, named)) \/ UNCHANGED active
  /\ UNCHANGED <<up, cursor, fails, outage, told, unseen>>

(***************************************************************************)
(* The probing loop.                                                       *)
(***************************************************************************)
\* Every alert carries its time, so deduplication lets each one through.
Arms(d, level) == level = "CRITICAL" /\ Policy[d].scope # NoScope

\* What the bus raises is swallowed: it may not take the halt.
FireFor(d, level, taken) ==
  IF taken /\ Arms(d, level) THEN Fire(Policy[d].scope, NoKey) ELSE UNCHANGED active

AfterProbe_Over(d) == d + 1

AfterProbe_First(d) == 0

\* The pass goes on to the next dependency.
AfterProbe(d) == IF d = Deps THEN 0 ELSE d + 1

\* A routing that raises ends the pass: the loop logs and sleeps.
Abandon == cursor' = 0 /\ UNCHANGED active

\* The clock is dropped before the recovery is routed.
Recover(d, raises) ==
  /\ outage' = [outage EXCEPT ![d] = NoOutage]
  /\ IF ~TellsRecovery(d, outage[d])
     THEN cursor' = AfterProbe(d) /\ UNCHANGED <<told, active>>
     ELSE IF raises
     THEN told' = [told EXCEPT ![d] = "lost"] /\ Abandon
     ELSE /\ told' = [told EXCEPT ![d] = "recovered"]
          /\ cursor' = AfterProbe(d) /\ UNCHANGED active

Healthy(d, raises) ==
  /\ up[d]
  /\ fails' = [fails EXCEPT ![d] = 0]
  /\ unseen' = [unseen EXCEPT ![d] = 0]
  /\ IF outage[d] = NoOutage
     THEN cursor' = AfterProbe(d) /\ UNCHANGED <<outage, told, active>>
     ELSE Recover(d, raises)

\* The clock starts with the probe that reaches the threshold.
OpensClock(count) == count >= Threshold

Age(d) == IF outage[d] = NoOutage THEN 0 ELSE outage[d]

Alert(d, level, raises, taken) ==
  IF level = "none"
  THEN cursor' = AfterProbe(d) /\ UNCHANGED <<told, active>>
  ELSE IF raises
  THEN UNCHANGED told /\ Abandon
  ELSE /\ told' = [told EXCEPT ![d] = level]
       /\ FireFor(d, level, taken) /\ cursor' = AfterProbe(d)

Counted(d) == IF fails[d] = Threshold THEN Threshold ELSE fails[d] + 1

Unreachable(d, raises, taken) ==
  /\ ~up[d]
  /\ fails' = [fails EXCEPT ![d] = Counted(d)]
  /\ IF OpensClock(Counted(d))
     THEN outage' = [outage EXCEPT ![d] = Age(d)] /\ Alert(d, Level(d, Age(d)), raises, taken)
     ELSE cursor' = AfterProbe(d) /\ UNCHANGED <<outage, told, active>>
  /\ UNCHANGED unseen

\* The routing of what a probe shows may raise, and the bus not take its halt.
Probe(d, raises, taken) ==
  /\ cursor = d
  /\ Healthy(d, raises) \/ Unreachable(d, raises, taken)
  /\ UNCHANGED up

ProbeOne(d) == \E raises, taken \in BOOLEAN : Probe(d, raises, taken)

Older(age) == IF age < MaxAge THEN age + 1 ELSE age

\* The loop wakes after its interval and starts a pass.
Tick == /\ cursor = 0
        /\ cursor' = 1
        /\ outage' = [d \in Dep |-> Older(outage[d])]
        /\ unseen' = [d \in Dep |-> IF unseen[d] < MaxUnseen THEN unseen[d] + 1 ELSE MaxUnseen]
        /\ UNCHANGED <<up, fails, told, active>>

\* A dependency fails or comes back.
Turn(d) == /\ up' = [up EXCEPT ![d] = ~@]
           /\ UNCHANGED <<cursor, fails, outage, told, active, unseen>>

\* A redeploy or a crash: counts, clocks and registry start from nothing.
Restart == /\ cursor' = 0
           /\ fails' = [d \in Dep |-> 0]
           /\ outage' = [d \in Dep |-> NoOutage]
           /\ active' = [s \in Scope |-> {}]
           /\ told' = [d \in Dep |-> IF told[d] \in Alarms THEN "orphaned" ELSE told[d]]
           /\ UNCHANGED <<up, unseen>>

Next == \/ Tick \/ Restart
        \/ \E d \in Dep : ProbeOne(d) \/ Turn(d)
        \/ \E s \in Scope, k \in Keys : Clear(s, k) \/ KillSwitchAlert(s, k)

Spec == Init /\ [][Next]_vars

\* The loop never ends, and neither the router nor the bus raises for ever.
FairSpec == /\ Spec
            /\ WF_vars(Tick)
            /\ \A d \in Dep : WF_vars(ProbeOne(d)) /\ SF_vars(Probe(d, FALSE, TRUE))

(***************************************************************************)
(* Properties                                                              *)
(***************************************************************************)
\* Nobody is paged, and nothing halted, for a dependency some probe found up
\* within its expected recovery time: neither a flaky probe nor a pass cut short
\* nor a restart makes an outage longer than it is (_probe_one,
\* evaluate_dependency_health).
NoBlipPages ==
  [][\A d \in Dep : (told[d] # "CRITICAL" /\ told'[d] = "CRITICAL")
        => \/ unseen'[d] >= Policy[d].expected + Threshold
           \/ unseen'[d] >= Policy[d].hard + Threshold]_vars

\* Alarm and clock agree: as long as an outage is the last word people had, and
\* the process that told them lives, the clock that will tell them of its end is
\* running.  The word of the end is missed in two ways only: a routing raises in
\* the very probe that brings it (_probe_one drops the clock first), or the
\* service is restarted, which forgets the clock, and the dependency is up again
\* before the new process has clocked an outage of its own.
AlarmsAreOpen ==
  \A d \in Dep : told[d] \in Alarms => outage[d] # NoOutage

\* A dependency that stays down is halted in the end, and again after every
\* operator's clear, though routing and bus may raise, and whatever the other
\* dependencies do, unless restarts go on for ever
\* (run_dependency_health_probing).
LastingOutageHalts ==
  \A d \in Dep : Policy[d].scope # NoScope =>
    (<>[](~up[d]) /\ <>[][~Restart]_vars => []<>(NoKey \in active[Policy[d].scope]))
=============================================================================
