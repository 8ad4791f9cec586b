---------------------------- MODULE RelaunchBudget --------------------------
(***************************************************************************)
(* The budget of relaunch instructions (check_relaunch_dispatch_budget and *)
(* _ShardedState, notifiers/orchestrator_dispatch_budget.py): one object   *)
(* per VM, created if absent, under the day and the launcher group.  The   *)
(* objects are counted first and the VM claims its own after, two bucket   *)
(* calls; either may fail, and then works on a mirror in the local         *)
(* directory of the process instead.  Only then is GitHub told             *)
(* (orchestrator_dispatch.py), which may refuse; the claim stays.          *)
(*                                                                         *)
(* One launcher group: groups share nothing.  Revisions of the service may *)
(* overlap; each handles one event at a time.                              *)
(***************************************************************************)
EXTENDS Integers, FiniteSets

CONSTANTS
    Processes,      (* revisions of the service                             *)
    Vms,            (* the VMs of the group                                 *)
    NoVm,           (* "no check in progress"                               *)
    MaxPerDay,      (* _MAX_RELAUNCH_DISPATCHES_PER_DAY                     *)
    MaxFailures,    (* bound on the bucket calls that fail                  *)
    LastDay         (* bound on the days                                    *)

ASSUME BudgetAssumption ==
    /\ IsFiniteSet(Processes) /\ Processes # {}
    /\ NoVm \notin Vms
    /\ MaxPerDay \in Nat
    /\ MaxFailures \in Nat
    /\ LastDay \in Nat

Days == 0..LastDay

VARIABLES
    today,      (* the day of the clock                                     *)
    claims,     (* claims[d]: the objects of the group in the bucket        *)
    mirror,     (* mirror[p]: today's files of the group in p's directory;  *)
                (* those of a day that is over are never looked at          *)
    checking,   (* checking[p]: the VM p has counted for and not yet told   *)
    day,        (* day[p]: day_key of that check, 0 when there is none      *)
    posting,    (* the processes that have claimed and are about to tell    *)
    told,       (* history: told[d], the VMs GitHub was told to relaunch    *)
    missed,     (* history: missed[d], the others that were claimed, whose  *)
                (* instruction GitHub refused or a crash swallowed          *)
    refused,    (* history: the days on which a VM was refused              *)
    failures    (* bucket calls that have failed                            *)

checkVars == <<checking, day, posting>>
budgetVars == <<today, claims, mirror, checkVars, told, missed, refused, failures>>

BudgetTypeOK ==
    /\ today \in Days
    /\ claims \in [Days -> SUBSET Vms]
    /\ mirror \in [Processes -> SUBSET Vms]
    /\ checking \in [Processes -> Vms \cup {NoVm}]
    /\ day \in [Processes -> Days]
    /\ posting \in SUBSET Processes
    /\ told \in [Days -> SUBSET Vms]
    /\ missed \in [Days -> SUBSET Vms]
    /\ refused \in SUBSET Days
    /\ failures \in 0..MaxFailures

BudgetInit ==
    /\ today = 0
    /\ claims = [d \in Days |-> {}]
    /\ mirror = [p \in Processes |-> {}]
    /\ checking = [p \in Processes |-> NoVm]
    /\ day = [p \in Processes |-> 0]
    /\ posting = {}
    /\ told = [d \in Days |-> {}]
    /\ missed = [d \in Days |-> {}]
    /\ refused = {}
    /\ failures = 0

\* Does a bucket call fail?
Fails(fails) ==
    /\ fails => failures < MaxFailures
    /\ failures' = IF fails THEN failures + 1 ELSE failures

\* count: what a call sees, the bucket or the mirror if the bucket fails.
Ledger(p, fails) == IF fails THEN mirror[p] ELSE claims[today]

(* An operator whose name has an underscore is a slip: a version of the    *)
(* definition it is named after that the properties must tell apart.       *)

Exhausted_Late(ledger) == Cardinality(ledger) > MaxPerDay
Exhausted_Early(ledger) == Cardinality(ledger) >= MaxPerDay - 1

Exhausted(ledger) == Cardinality(ledger) >= MaxPerDay

\* "DO NOT RELAUNCH": the group has spent its budget.
Refuse(p) ==
    /\ checking[p] = NoVm
    /\ \E fails \in BOOLEAN : Exhausted(Ledger(p, fails)) /\ Fails(fails)
    /\ refused' = refused \cup {today}
    /\ UNCHANGED <<today, claims, mirror, checkVars, told, missed>>

CountClaims_Tomorrow(p, vm) ==
    /\ checking[p] = NoVm
    /\ \E fails \in BOOLEAN : ~Exhausted(Ledger(p, fails)) /\ Fails(fails)
    /\ checking' = [checking EXCEPT ![p] = vm]
    /\ day' = [day EXCEPT ![p] = today + 1]
    /\ UNCHANGED <<today, claims, mirror, posting, told, missed, refused>>

CountClaims(p, vm) ==
    /\ checking[p] = NoVm
    /\ \E fails \in BOOLEAN : ~Exhausted(Ledger(p, fails)) /\ Fails(fails)
    /\ checking' = [checking EXCEPT ![p] = vm]
    /\ day' = [day EXCEPT ![p] = today]
    /\ UNCHANGED <<today, claims, mirror, posting, told, missed, refused>>

Permit(p) ==
    /\ checking[p] # NoVm /\ p \notin posting
    /\ posting' = posting \cup {p}

\* claim: create the object if it is absent.  The count is not taken again.
Claim(p) ==
    /\ Permit(p)
    /\ claims' = [claims EXCEPT ![day[p]] = @ \cup {checking[p]}]
    /\ UNCHANGED <<today, mirror, checking, day, told, missed, refused, failures>>

\* The call fails, having reached the bucket or not, and the mirror takes the fact.
ClaimInMirror(p) ==
    /\ Permit(p)
    /\ Fails(TRUE)
    /\ mirror' = IF day[p] = today THEN [mirror EXCEPT ![p] = @ \cup {checking[p]}] ELSE mirror
    /\ \/ UNCHANGED claims
       \/ claims' = [claims EXCEPT ![day[p]] = @ \cup {checking[p]}]
    /\ UNCHANGED <<today, checking, day, told, missed, refused>>

Finish(p) ==
    /\ checking' = [checking EXCEPT ![p] = NoVm]
    /\ day' = [day EXCEPT ![p] = 0]
    /\ posting' = posting \ {p}

Missed(p) == missed' = [missed EXCEPT ![day[p]] = @ \cup ({checking[p]} \ told[day[p]])]

\* GitHub takes the POST, whether or not its answer comes in time.
PostTaken(p) ==
    /\ p \in posting
    /\ told' = [told EXCEPT ![day[p]] = @ \cup {checking[p]}]
    /\ missed' = [missed EXCEPT ![day[p]] = @ \ {checking[p]}]
    /\ Finish(p)
    /\ UNCHANGED <<today, claims, mirror, refused, failures>>

\* It does not; nobody tries again, and the claim is not taken back.
PostRefused(p) ==
    /\ p \in posting
    /\ Missed(p)
    /\ Finish(p)
    /\ UNCHANGED <<today, claims, mirror, told, refused, failures>>

\* The process dies, its directory and the instruction in its hand with it;
\* another one takes over.
Restart(p) ==
    /\ IF p \in posting THEN Missed(p) ELSE UNCHANGED missed
    /\ Finish(p)
    /\ mirror' = [mirror EXCEPT ![p] = {}]
    /\ UNCHANGED <<today, claims, told, refused, failures>>

Midnight ==
    /\ today < LastDay
    /\ today' = today + 1
    /\ mirror' = [p \in Processes |-> {}]
    /\ UNCHANGED <<claims, checkVars, told, missed, refused, failures>>

BudgetNext ==
    \/ \E p \in Processes :
        \/ Refuse(p)
        \/ \E vm \in Vms : CountClaims(p, vm)
        \/ Claim(p) \/ ClaimInMirror(p)
        \/ PostTaken(p) \/ PostRefused(p)
        \/ Restart(p)
    \/ Midnight

BudgetSpec == BudgetInit /\ [][BudgetNext]_budgetVars

-----------------------------------------------------------------------------
(* Properties.                                                             *)

\* What the count and the claim guarantee between them until a bucket call fails:
\* the VMs told to relaunch overshoot the budget of their group by the checks that
\* were between the two, one for each revision but one, and never by more, at
\* midnight included.
OvershootBounded ==
    failures = 0 => \A d \in Days :
        Cardinality(told[d]) <= MaxPerDay + Cardinality(Processes) - 1

\* The VMs a claim of the day was written for.
Claimants(d) == told[d] \cup missed[d] \cup {checking[p] : p \in {q \in posting : day[q] = d}}

\* A refusal is never made up, and lost claims are all it can be wrong about:
\* whatever failed calls, mirrors and restarts, as many VMs as the budget has were
\* told to relaunch that day or are about to be, counting those whose instruction
\* GitHub refused or a crash swallowed after the claim.  The budget is spent on
\* those as well, and a VM may be refused on a day on which none was told.
RefusedOnlyWhenSpent ==
    \A d \in refused : Cardinality(Claimants(d)) >= MaxPerDay

=============================================================================
