-------------------------- MODULE AlertDedupProofs --------------------------
(* Deduplication never silences an identity for longer than its window,    *)
(* whatever the number of revisions, of identities and of failed calls;    *)
(* and while nothing fails a cooldown survives the revision that opened it. *)
EXTENDS AlertDedup, TLAPS

\* What the bucket gives back, and so what a process looks at, is well typed.
LEMMA ViewsAreStamps ==
    ASSUME TypeOK, NEW p \in Processes, NEW k \in Keys,
           NEW fails \in Failures
    PROVE  CooldownView(p, k, fails) \in Stamps
BY DEF TypeOK, CooldownView, ObjectRead, Stamps, NoStamps, Time, NoTime

\* The history of calm operation is a truth value.
LEMMA CalmIsBoolean == TypeOK /\ [Next]_vars => calm' \in BOOLEAN
<1> SUFFICES ASSUME TypeOK, [Next]_vars PROVE calm' \in BOOLEAN
    OBVIOUS
<1>1. calm \in BOOLEAN
    BY DEF TypeOK
<1>2. ASSUME NEW p \in Processes, NEW k \in Keys, Arrive(p, k)
      PROVE  calm' \in BOOLEAN
    BY <1>1, <1>2 DEF Arrive, SuppressedByCooldown, SuppressedInProcess, Claim,
                      Notes
<1>3. ASSUME NEW p \in Processes, Reread(p) PROVE calm' \in BOOLEAN
    BY <1>3 DEF Reread, Notes
<1>4. ASSUME NEW p \in Processes, StoreUnavailable(p) PROVE calm' \in BOOLEAN
    BY <1>4 DEF StoreUnavailable, Notes
<1>5. ASSUME NEW p \in Processes, Write(p) PROVE calm' \in BOOLEAN
    BY <1>5 DEF Write, Notes
<1>6. ASSUME NEW p \in Processes, Deliver(p) \/ Stop(p) PROVE calm' \in BOOLEAN
    BY <1>1, <1>6 DEF Deliver, Stop
<1>7. ASSUME NEW p \in Processes, Start(p) PROVE calm' \in BOOLEAN
    BY <1>7 DEF Start
<1>8. CASE Tick \/ UNCHANGED vars
    BY <1>1, <1>8 DEF Tick, vars
<1> QED
    BY <1>2, <1>3, <1>4, <1>5, <1>6, <1>7, <1>8 DEF Next

\* The state is well typed in every reachable state of every instance.
THEOREM TypeCorrect == Spec => []TypeOK
<1> USE DedupAssumption DEF Stamps, NoStamps, Time, NoTime
<1>1. Init => TypeOK
    BY DEF Init, TypeOK
<1>2. TypeOK /\ [Next]_vars => TypeOK'
    <2> SUFFICES ASSUME TypeOK, [Next]_vars PROVE TypeOK'
        OBVIOUS
    <2>0. calm' \in BOOLEAN
        BY CalmIsBoolean
    <2> USE DEF TypeOK
    <2>1. ASSUME NEW p \in Processes, NEW k \in Keys, SuppressedByCooldown(p, k)
          PROVE  TypeOK'
        BY <2>1, <2>0, ViewsAreStamps DEF SuppressedByCooldown, Load
    <2>2. ASSUME NEW p \in Processes, NEW k \in Keys, SuppressedInProcess(p, k)
          PROVE  TypeOK'
        BY <2>2, <2>0, ViewsAreStamps DEF SuppressedInProcess, Load, Unexpired
    <2>3. ASSUME NEW p \in Processes, NEW k \in Keys, Claim(p, k)
          PROVE  TypeOK'
        BY <2>3, <2>0, ViewsAreStamps DEF Claim, Load, Unexpired
    <2>4. ASSUME NEW p \in Processes, Reread(p) PROVE TypeOK'
        BY <2>4, <2>0 DEF Reread, ObjectRead, Merged
    <2>5. ASSUME NEW p \in Processes, StoreUnavailable(p) PROVE TypeOK'
        BY <2>5, <2>0 DEF StoreUnavailable
    <2>6. ASSUME NEW p \in Processes, Write(p) PROVE TypeOK'
        BY <2>6, <2>0 DEF Write
    <2>7. ASSUME NEW p \in Processes, Deliver(p) PROVE TypeOK'
        BY <2>7, <2>0 DEF Deliver
    <2>8. ASSUME NEW p \in Processes, Start(p) PROVE TypeOK'
        BY <2>8, <2>0 DEF Start
    <2>9. ASSUME NEW p \in Processes, Stop(p) PROVE TypeOK'
        BY <2>9, <2>0 DEF Stop
    <2>10. CASE Tick
        BY <2>10, <2>0 DEF Tick
    <2>11. CASE UNCHANGED vars
        BY <2>11, <2>0 DEF vars
    <2> QED
        BY <2>1, <2>2, <2>3, <2>4, <2>5, <2>6, <2>7, <2>8, <2>9, <2>10, <2>11
        DEF Next, Arrive
<1> QED
    BY <1>1, <1>2, PTL DEF Spec

-----------------------------------------------------------------------------

\* Whatever a process looks at holds nothing but times of past claims.
LEMMA ViewsAreClaims ==
    ASSUME TypeOK, StampsAreClaims, NEW p \in Processes, NEW k \in Keys,
           NEW fails \in Failures, NEW j \in Keys
    PROVE  CooldownView(p, k, fails)[j] <= lastClaim[j]
BY DEF TypeOK, StampsAreClaims, CooldownView, ObjectRead,
       Stamps, NoStamps, Time, NoTime

\* Eviction leaves nothing but times of past claims.
LEMMA UnexpiredAreClaims ==
    ASSUME TypeOK, StampsAreClaims, NEW p \in Processes
    PROVE  /\ Unexpired(p) \in Stamps
           /\ \A j \in Keys : Unexpired(p)[j] <= lastClaim[j]
<1> USE DEF TypeOK, StampsAreClaims, Stamps, Time, NoTime
<1>1. seen[p] \in Stamps
    OBVIOUS
<1>2. ASSUME NEW j \in Keys
      PROVE  Unexpired(p)[j] \in Time /\ Unexpired(p)[j] <= lastClaim[j]
    <2>1. seen[p][j] \in Time /\ lastClaim[j] \in Time /\ seen[p][j] <= lastClaim[j]
        BY <1>1
    <2>2. Unexpired(p)[j] = NoTime \/ Unexpired(p)[j] = seen[p][j]
        BY DEF Unexpired
    <2> QED
        BY <2>1, <2>2
<1> QED
    BY <1>2 DEF Unexpired

\* No read, merge, write, crash or redeploy invents a stamp: each one in a
\* memory or in the bucket is the time of a claim that was made.
THEOREM StampsCorrect == Spec => []StampsAreClaims
<1> USE DedupAssumption DEF Stamps, NoStamps, Time, NoTime
<1>1. Init => StampsAreClaims
    BY DEF Init, StampsAreClaims
<1>2. TypeOK /\ StampsAreClaims /\ [Next]_vars => StampsAreClaims'
    <2> SUFFICES ASSUME TypeOK, StampsAreClaims, [Next]_vars
                 PROVE  StampsAreClaims'
        OBVIOUS
    <2> USE DEF TypeOK, StampsAreClaims
    <2>1. ASSUME NEW p \in Processes, NEW k \in Keys, SuppressedByCooldown(p, k)
          PROVE  StampsAreClaims'
        BY <2>1, ViewsAreClaims, ViewsAreStamps DEF SuppressedByCooldown, Load
    <2>2. ASSUME NEW p \in Processes, NEW k \in Keys, SuppressedInProcess(p, k)
          PROVE  StampsAreClaims'
        <3>1. Unexpired(p) \in Stamps /\ \A j \in Keys : Unexpired(p)[j] <= lastClaim[j]
            BY UnexpiredAreClaims
        <3>2. PICK fails \in Failures : Load(p, k, CooldownView(p, k, fails))
            BY <2>2 DEF SuppressedInProcess
        <3> DEFINE view == CooldownView(p, k, fails)
        <3>3. view \in Stamps /\ \A j \in Keys : view[j] <= lastClaim[j]
            BY ViewsAreStamps, ViewsAreClaims
        <3>4. \A q \in Processes, j \in Keys : seen'[q][j] <= lastClaim[j]
            BY <2>2, <3>1 DEF SuppressedInProcess
        <3>5. \A q \in Processes, j \in Keys : cache'[q][j] <= lastClaim[j]
            BY <3>2, <3>3 DEF Load
        <3> QED
            BY <2>2, <3>4, <3>5 DEF SuppressedInProcess
    <2>3. ASSUME NEW p \in Processes, NEW k \in Keys, Claim(p, k)
          PROVE  StampsAreClaims'
        <3>1. PICK fails \in Failures :
                LET view == CooldownView(p, k, fails)
                IN  Load(p, k, IF k \in Recurring THEN [view EXCEPT ![k] = now] ELSE view)
            BY <2>3 DEF Claim
        <3> DEFINE view == CooldownView(p, k, fails)
        <3>2. view \in Stamps /\ \A j \in Keys : view[j] <= lastClaim[j]
            BY ViewsAreStamps, ViewsAreClaims
        <3>3. /\ lastClaim' = [lastClaim EXCEPT ![k] = now]
              /\ now' = now /\ durable' = durable
              /\ seen' = [seen EXCEPT ![p] = [Unexpired(p) EXCEPT ![k] = now]]
            BY <2>3 DEF Claim
        <3>4. \A j \in Keys : lastClaim[j] <= lastClaim'[j] /\ lastClaim'[j] <= now'
            BY <3>3
        <3>5. \A q \in Processes, j \in Keys : seen'[q][j] <= lastClaim'[j]
            <4> SUFFICES ASSUME NEW q \in Processes, NEW j \in Keys
                         PROVE  seen'[q][j] <= lastClaim'[j]
                OBVIOUS
            <4>1. Unexpired(p) \in Stamps /\ Unexpired(p)[j] <= lastClaim[j]
                BY UnexpiredAreClaims
            <4>2. /\ seen[q][j] \in Int /\ Unexpired(p)[j] \in Int
                  /\ lastClaim[j] \in Int /\ lastClaim'[j] \in Int
                <5>1. seen[q] \in Stamps
                    OBVIOUS
                <5>2. seen[q][j] \in Int /\ Unexpired(p)[j] \in Int
                    BY <4>1, <5>1
                <5>3. lastClaim[j] \in Int /\ now \in Int
                    OBVIOUS
                <5>4. lastClaim'[j] \in Int
                    BY <3>3, <5>3
                <5> QED
                    BY <5>2, <5>3, <5>4
            <4>3. CASE q # p
                <5>1. seen'[q][j] = seen[q][j]
                    BY <3>3, <4>3
                <5> QED
                    BY <3>4, <4>2, <5>1
            <4>4. CASE q = p
                <5>1. seen'[q] = [Unexpired(p) EXCEPT ![k] = now]
                    BY <3>3, <4>4
                <5>2. CASE j = k
                    BY <3>3, <4>1, <4>2, <5>1, <5>2
                <5>3. CASE j # k
                    <6>1. seen'[q][j] = Unexpired(p)[j]
                        BY <4>1, <5>1, <5>3
                    <6> QED
                        BY <3>4, <4>1, <4>2, <6>1
                <5> QED
                    BY <5>2, <5>3
            <4> QED
                BY <4>3, <4>4
        <3>6. \A q \in Processes, j \in Keys : cache'[q][j] <= lastClaim'[j]
            <4> SUFFICES ASSUME NEW q \in Processes, NEW j \in Keys
                         PROVE  cache'[q][j] <= lastClaim'[j]
                OBVIOUS
            <4> DEFINE own == IF k \in Recurring THEN [view EXCEPT ![k] = now] ELSE view
            <4>1. own[j] <= lastClaim'[j]
                <5>1. view[j] \in Int /\ lastClaim[j] \in Int
                    BY <3>2
                <5>2. own[j] = view[j] \/ (j = k /\ own[j] = now)
                    BY <3>2
                <5> QED
                    BY <5>1, <5>2, <3>2, <3>3, <3>4
            <4>2. cache' = [cache EXCEPT ![p] = own]
                BY <3>1 DEF Load
            <4> HIDE DEF own
            <4>3. CASE q = p
                BY <4>1, <4>2, <4>3
            <4>4. CASE q # p
                <5>1. cache'[q][j] = cache[q][j]
                    BY <4>2, <4>4
                <5>2. cache[q][j] \in Int /\ lastClaim[j] \in Int /\ lastClaim'[j] \in Int
                    BY <3>3
                <5> QED
                    BY <5>1, <5>2, <3>4
            <4> QED
                BY <4>3, <4>4
        <3>7. \A j \in Keys : durable'[j] <= lastClaim'[j]
            <4> SUFFICES ASSUME NEW j \in Keys PROVE durable'[j] <= lastClaim'[j]
                OBVIOUS
            <4>1. durable[j] \in Int /\ lastClaim[j] \in Int /\ lastClaim'[j] \in Int
                BY <3>3
            <4> QED
                BY <4>1, <3>3, <3>4
        <3> QED
            BY <3>4, <3>5, <3>6, <3>7 DEF StampsAreClaims
    <2>4. ASSUME NEW p \in Processes, Reread(p) PROVE StampsAreClaims'
        BY <2>4 DEF Reread, ObjectRead, Merged
    <2>5. ASSUME NEW p \in Processes, StoreUnavailable(p) PROVE StampsAreClaims'
        BY <2>5 DEF StoreUnavailable
    <2>6. ASSUME NEW p \in Processes, Write(p) PROVE StampsAreClaims'
        BY <2>6 DEF Write
    <2>7. ASSUME NEW p \in Processes, Deliver(p) PROVE StampsAreClaims'
        BY <2>7 DEF Deliver
    <2>8. ASSUME NEW p \in Processes, Start(p) PROVE StampsAreClaims'
        BY <2>8 DEF Start
    <2>9. ASSUME NEW p \in Processes, Stop(p) PROVE StampsAreClaims'
        <3>1. \A q \in Processes, j \in Keys :
                seen'[q][j] <= lastClaim[j] /\ cache'[q][j] <= lastClaim[j]
            <4> SUFFICES ASSUME NEW q \in Processes, NEW j \in Keys
                         PROVE  seen'[q][j] <= lastClaim[j] /\ cache'[q][j] <= lastClaim[j]
                OBVIOUS
            <4>1. lastClaim[j] \in Time
                OBVIOUS
            <4>2. CASE q = p
                BY <2>9, <4>1, <4>2 DEF Stop
            <4>3. CASE q # p
                BY <2>9, <4>3 DEF Stop
            <4> QED
                BY <4>2, <4>3
        <3> QED
            BY <2>9, <3>1 DEF Stop
    <2>10. CASE Tick
        BY <2>10 DEF Tick
    <2>11. CASE UNCHANGED vars
        BY <2>11 DEF vars
    <2> QED
        BY <2>1, <2>2, <2>3, <2>4, <2>5, <2>6, <2>7, <2>8, <2>9, <2>10, <2>11
        DEF Next, Arrive
<1> QED
    BY <1>1, <1>2, TypeCorrect, PTL DEF Spec

\* An identity is silenced only while some process let it through within its
\* window: a finding that persists is raised again, whatever fails.
THEOREM NeverSilencedForLonger == Spec => []SuppressedOnlyInWindow
<1>1. TypeOK /\ StampsAreClaims => SuppressedOnlyInWindow
    <2> SUFFICES ASSUME TypeOK, StampsAreClaims,
                        NEW p \in Processes, NEW k \in Keys,
                        MaySuppress(p, k)
                 PROVE  lastClaim[k] # NoTime /\ now - lastClaim[k] <= Ttl[k]
        BY DEF SuppressedOnlyInWindow
    <2> USE DedupAssumption DEF TypeOK, Stamps, Time, NoTime
    <2>1. CASE \E fails \in Failures : ShouldSuppress(CooldownView(p, k, fails), k)
        <3>1. PICK fails \in Failures : ShouldSuppress(CooldownView(p, k, fails), k)
            BY <2>1
        <3> DEFINE view == CooldownView(p, k, fails)
        <3>2. view \in Stamps /\ view[k] <= lastClaim[k]
            BY ViewsAreStamps, ViewsAreClaims
        <3> QED
            BY <3>1, <3>2 DEF ShouldSuppress
    <2>2. CASE IsDuplicate(p, k)
        BY <2>2 DEF IsDuplicate, Unexpired, StampsAreClaims
    <2> QED
        BY <2>1, <2>2 DEF MaySuppress
<1> QED
    BY <1>1, TypeCorrect, StampsCorrect, PTL

-----------------------------------------------------------------------------
(* The cooldown is durable.                                                *)

\* A revision that does not run remembers nothing; one that has not loaded the
\* object has an empty cache, and is not recording an alert.
MemoryIsVolatile ==
    \A p \in Processes :
        /\ ~up[p] => pc[p] = "idle" /\ ~loaded[p]
        /\ ~loaded[p] => cache[p] = NoStamps /\ pc[p] \notin {"reread", "write"}

LEMMA VolatileStep == TypeOK /\ MemoryIsVolatile /\ [Next]_vars => MemoryIsVolatile'
<1> SUFFICES ASSUME TypeOK, MemoryIsVolatile, [Next]_vars PROVE MemoryIsVolatile'
    OBVIOUS
<1>0. /\ up \in [Processes -> BOOLEAN] /\ loaded \in [Processes -> BOOLEAN]
      /\ cache \in [Processes -> Stamps] /\ DOMAIN pc = Processes
    BY DEF TypeOK
<1>1. ASSUME NEW p \in Processes, NEW k \in Keys, Arrive(p, k)
      PROVE  MemoryIsVolatile'
    <2>1. PICK fails, own :
            /\ fails \in Failures /\ Load(p, k, own)
            /\ k \notin Recurring => own = CooldownView(p, k, fails)
        BY <1>1 DEF Arrive, SuppressedByCooldown, SuppressedInProcess, Claim
    <2>2. up[p] /\ up' = up /\ \A q \in Processes \ {p} : pc'[q] = pc[q]
        BY <1>0, <1>1 DEF Arrive, SuppressedByCooldown, SuppressedInProcess, Claim
    <2>a. pc'[p] \in {"reread", "write"} => k \in Recurring
        BY <1>0, <1>1 DEF Arrive, SuppressedByCooldown, SuppressedInProcess, Claim
    <2>3. /\ cache'[p] = own /\ loaded'[p] = (loaded[p] \/ k \in Recurring)
          /\ \A q \in Processes \ {p} : cache'[q] = cache[q] /\ loaded'[q] = loaded[q]
        BY <1>0, <2>1 DEF Load
    <2>4. ~loaded'[p] => own = cache[p] /\ ~loaded[p]
        BY <2>1, <2>3 DEF CooldownView
    <2> QED
        BY <2>2, <2>a, <2>3, <2>4 DEF MemoryIsVolatile
<1>2. ASSUME NEW p \in Processes, Reread(p)
      PROVE  MemoryIsVolatile'
    BY <1>0, <1>2 DEF Reread, MemoryIsVolatile, NoStamps, ObjectRead, Merged
<1>3. ASSUME NEW p \in Processes, StoreUnavailable(p) \/ Write(p) \/ Deliver(p)
      PROVE  MemoryIsVolatile'
    BY <1>0, <1>3 DEF StoreUnavailable, Write, Deliver, MemoryIsVolatile, NoStamps
<1>4. ASSUME NEW p \in Processes, Start(p) \/ Stop(p)
      PROVE  MemoryIsVolatile'
    BY <1>0, <1>4 DEF Start, Stop, MemoryIsVolatile, NoStamps
<1>5. CASE Tick \/ UNCHANGED vars
    BY <1>5 DEF Tick, vars, MemoryIsVolatile, NoStamps
<1> QED
    BY <1>1, <1>2, <1>3, <1>4, <1>5 DEF Next

\* While nothing has failed and no two revisions overlapped, the object holds the
\* stamp of every alert that was delivered; the cache of the one revision that
\* runs is never behind the object it will overwrite; and an alert on its way to
\* delivery is stamped in the cache, and from the write on in the object.
CooldownKept ==
    /\ \A p, q \in Processes : up[p] /\ up[q] => p = q
    /\ \A k \in Recurring : lastSent[k] <= durable[k]
    /\ \A p \in Processes, k \in Keys : loaded[p] => durable[k] <= cache[p][k]
    /\ \A p \in Processes :
        pc[p] \in {"reread", "write"} => seen[p][handling[p]] <= cache[p][handling[p]]
    /\ \A p \in Processes :
        pc[p] = "deliver" /\ handling[p] \in Recurring =>
            seen[p][handling[p]] <= durable[handling[p]]

\* A read that does not fail shows stamps no older than the object's.
LEMMA CalmViewIsFresh ==
    ASSUME TypeOK, CooldownKept, NEW p \in Processes, NEW k \in Recurring, NEW j \in Keys
    PROVE  /\ CooldownView(p, k, FALSE) \in Stamps
           /\ durable[j] <= CooldownView(p, k, FALSE)[j]
<1>1. durable \in Stamps /\ cache[p] \in Stamps /\ durable[j] \in Int
    BY DEF TypeOK, Stamps, Time, NoTime
<1>2. CASE loaded[p]
    BY <1>1, <1>2 DEF CooldownView, CooldownKept
<1>3. CASE ~loaded[p]
    BY <1>1, <1>3 DEF CooldownView, ObjectRead
<1> QED
    BY <1>2, <1>3

\* Every calm step keeps the cooldowns.
LEMMA KeptStep ==
    TypeOK /\ StampsAreClaims /\ MemoryIsVolatile /\ (calm => CooldownKept) /\ [Next]_vars
        => (calm' => CooldownKept')
<1> SUFFICES ASSUME TypeOK, StampsAreClaims, MemoryIsVolatile, calm => CooldownKept,
                    [Next]_vars, calm'
             PROVE  CooldownKept'
    OBVIOUS
<1> USE DedupAssumption
<1>0. /\ calm \in BOOLEAN /\ now \in Nat /\ up \in [Processes -> BOOLEAN]
      /\ loaded \in [Processes -> BOOLEAN] /\ DOMAIN pc = Processes /\ DOMAIN handling = Processes
      /\ cache \in [Processes -> Stamps] /\ seen \in [Processes -> Stamps]
      /\ durable \in Stamps /\ lastSent \in Stamps
      /\ \A p \in Processes : pc[p] # "idle" => handling[p] \in Keys
    BY DEF TypeOK
<1>a. /\ \A k \in Keys : /\ durable[k] \in Int /\ lastSent[k] \in Int /\ durable[k] <= now
      /\ \A p \in Processes, k \in Keys : cache[p][k] \in Int /\ seen[p][k] \in Int
    <2>1. \A s \in Stamps, k \in Keys : s[k] \in Int
        BY DEF Stamps, Time, NoTime
    <2>2. \A k \in Keys : lastClaim[k] \in Int
        BY <2>1 DEF TypeOK
    <2>3. \A k \in Keys : durable[k] <= lastClaim[k] /\ lastClaim[k] <= now
        BY DEF StampsAreClaims
    <2> QED
        BY <1>0, <2>1, <2>2, <2>3
<1>1. ASSUME NEW p \in Processes, NEW k \in Keys,
             SuppressedByCooldown(p, k) \/ SuppressedInProcess(p, k)
      PROVE  CooldownKept'
    <2>1. PICK fails \in Failures : Load(p, k, CooldownView(p, k, fails)) /\ Notes(fails)
        BY <1>1 DEF SuppressedByCooldown, SuppressedInProcess
    <2>2. calm /\ fails = FALSE
        BY <1>0, <2>1 DEF Notes, Failures
    <2>3. /\ UNCHANGED <<up, durable, pc, handling, lastSent>>
          /\ up[p] /\ pc[p] = "idle"
          /\ \A q \in Processes \ {p} : seen'[q] = seen[q]
        BY <1>0, <1>1 DEF SuppressedByCooldown, SuppressedInProcess
    <2>4. /\ cache'[p] = CooldownView(p, k, FALSE) /\ loaded'[p] = (loaded[p] \/ k \in Recurring)
          /\ \A q \in Processes \ {p} : cache'[q] = cache[q] /\ loaded'[q] = loaded[q]
        BY <1>0, <2>1, <2>2 DEF Load
    <2>5. \A j \in Keys : loaded'[p] => durable[j] <= cache'[p][j]
        <3>1. CASE k \in Recurring
            BY <2>2, <2>4, <3>1, CalmViewIsFresh
        <3>2. CASE k \notin Recurring
            BY <2>2, <2>4, <3>2 DEF CooldownView, CooldownKept
        <3> QED
            BY <3>1, <3>2
    <2> QED
        BY <2>2, <2>3, <2>4, <2>5 DEF CooldownKept
<1>2. ASSUME NEW p \in Processes, NEW k \in Keys, Claim(p, k)
      PROVE  CooldownKept'
    <2>1. PICK fails \in Failures :
            LET view == CooldownView(p, k, fails)
            IN  /\ Load(p, k, IF k \in Recurring THEN [view EXCEPT ![k] = now] ELSE view)
                /\ Notes(fails)
        BY <1>2 DEF Claim
    <2>2. calm /\ fails = FALSE
        BY <1>0, <2>1 DEF Notes, Failures
    <2> DEFINE view == CooldownView(p, k, FALSE)
    <2>3. /\ UNCHANGED <<up, durable, lastSent>> /\ up[p]
          /\ pc' = [pc EXCEPT ![p] = IF k \in Recurring THEN "reread" ELSE "deliver"]
          /\ handling' = [handling EXCEPT ![p] = k]
          /\ seen' = [seen EXCEPT ![p] = [Unexpired(p) EXCEPT ![k] = now]]
        BY <1>2 DEF Claim
    <2>4. /\ cache'[p] = (IF k \in Recurring THEN [view EXCEPT ![k] = now] ELSE view)
          /\ loaded'[p] = (loaded[p] \/ k \in Recurring)
          /\ \A q \in Processes \ {p} : cache'[q] = cache[q] /\ loaded'[q] = loaded[q]
        BY <1>0, <2>1, <2>2 DEF Load
    <2>5. seen'[p][k] = now
        BY <1>0, <2>3 DEF Unexpired
    <2>6. /\ \A j \in Keys : loaded'[p] => durable[j] <= cache'[p][j]
          /\ k \in Recurring => cache'[p][k] = now /\ loaded'[p]
        <3>1. CASE k \in Recurring
            <4>1. view \in Stamps /\ \A j \in Keys : durable[j] <= view[j]
                BY <2>2, <3>1, CalmViewIsFresh
            <4>2. cache'[p] = [view EXCEPT ![k] = now]
                BY <2>4, <3>1
            <4> HIDE DEF view
            <4>3. \A j \in Keys : cache'[p][j] = IF j = k THEN now ELSE view[j]
                BY <4>1, <4>2 DEF Stamps
            <4> QED
                BY <1>a, <2>4, <3>1, <4>1, <4>3
        <3>2. CASE k \notin Recurring
            BY <2>2, <2>4, <3>2 DEF CooldownView, CooldownKept
        <3> QED
            BY <3>1, <3>2
    <2>7. /\ pc'[p] = (IF k \in Recurring THEN "reread" ELSE "deliver") /\ handling'[p] = k
          /\ \A q \in Processes \ {p} :
                pc'[q] = pc[q] /\ handling'[q] = handling[q] /\ seen'[q] = seen[q]
        BY <1>0, <2>3
    <2> HIDE DEF view
    <2>8. /\ pc'[p] \in {"reread", "write"} =>
                seen'[p][handling'[p]] <= cache'[p][handling'[p]]
          /\ ~(pc'[p] = "deliver" /\ handling'[p] \in Recurring)
        BY <1>0, <2>5, <2>6, <2>7
    <2> QED
        BY <2>2, <2>3, <2>4, <2>6, <2>7, <2>8 DEF CooldownKept
<1>3. ASSUME NEW p \in Processes, Reread(p)
      PROVE  CooldownKept'
    <2>1. calm /\ cache' = [cache EXCEPT ![p] = Merged(durable, cache[p])]
        <3>1. PICK fails \in Failures :
                cache' = [cache EXCEPT ![p] = Merged(ObjectRead(fails), cache[p])] /\ Notes(fails)
            BY <1>3 DEF Reread
        <3>2. calm /\ fails = FALSE
            BY <1>0, <3>1 DEF Notes, Failures
        <3> QED
            BY <3>1, <3>2 DEF ObjectRead
    <2>2. /\ UNCHANGED <<up, seen, loaded, durable, handling, lastSent>>
          /\ pc' = [pc EXCEPT ![p] = "write"] /\ pc[p] = "reread"
        BY <1>3 DEF Reread
    <2>3. /\ loaded[p] /\ handling[p] \in Keys /\ \A j \in Keys : durable[j] <= cache[p][j]
          /\ seen[p][handling[p]] <= cache[p][handling[p]]
        BY <1>0, <2>1, <2>2 DEF CooldownKept, MemoryIsVolatile
    <2>4. \A j \in Keys : cache[p][j] <= cache'[p][j] /\ cache'[p][j] \in Int
        <3> SUFFICES ASSUME NEW j \in Keys
                     PROVE  cache[p][j] <= cache'[p][j] /\ cache'[p][j] \in Int
            OBVIOUS
        <3>1. cache'[p][j] = IF cache[p][j] # NoTime THEN cache[p][j] ELSE durable[j]
            BY <1>0, <2>1 DEF Merged
        <3>2. durable[j] \in Time
            BY <1>0 DEF Stamps
        <3> QED
            BY <1>a, <3>1, <3>2 DEF Time, NoTime
    <2>5. \A q \in Processes \ {p} : cache'[q] = cache[q] /\ pc'[q] = pc[q]
        BY <1>0, <2>1, <2>2
    <2>6. \A j \in Keys : durable[j] <= cache'[p][j]
        BY <1>a, <2>3, <2>4
    <2>7. seen[p][handling[p]] <= cache'[p][handling[p]]
        BY <1>a, <2>3, <2>4
    <2>8. pc'[p] = "write"
        BY <1>0, <2>2
    <2> QED
        BY <2>1, <2>2, <2>3, <2>5, <2>6, <2>7, <2>8 DEF CooldownKept
<1>4. ASSUME NEW p \in Processes, StoreUnavailable(p)
      PROVE  CooldownKept'
    BY <1>4 DEF StoreUnavailable, Notes
<1>5. ASSUME NEW p \in Processes, Write(p)
      PROVE  CooldownKept'
    <2>1. calm /\ durable' = cache[p]
        <3>1. PICK fails \in Failures :
                durable' = (IF fails THEN durable ELSE cache[p]) /\ Notes(fails)
            BY <1>5 DEF Write
        <3>2. calm /\ fails = FALSE
            BY <1>0, <3>1 DEF Notes, Failures
        <3> QED
            BY <3>1, <3>2
    <2>2. /\ UNCHANGED <<up, seen, loaded, cache, handling, lastSent>>
          /\ pc' = [pc EXCEPT ![p] = "deliver"] /\ pc[p] = "write" /\ up[p]
        BY <1>5 DEF Write
    <2>3. /\ loaded[p] /\ handling[p] \in Keys
          /\ \A j \in Keys : durable[j] <= durable'[j] /\ durable'[j] \in Int
          /\ seen[p][handling[p]] <= durable'[handling[p]]
        BY <1>0, <1>a, <2>1, <2>2 DEF CooldownKept, MemoryIsVolatile
    <2>4. \A j \in Recurring : lastSent'[j] <= durable'[j]
        BY <1>a, <2>1, <2>2, <2>3 DEF CooldownKept
    <2>5. \A q \in Processes \ {p} : ~loaded[q] /\ pc[q] = "idle" /\ pc'[q] = pc[q]
        BY <1>0, <2>1, <2>2 DEF CooldownKept, MemoryIsVolatile
    <2>6. \A q \in Processes, j \in Keys : loaded'[q] => durable'[j] <= cache'[q][j]
        BY <1>a, <2>1, <2>2, <2>5
    <2>7. pc'[p] = "deliver"
        BY <1>0, <2>2
    <2> QED
        BY <2>1, <2>2, <2>3, <2>4, <2>5, <2>6, <2>7 DEF CooldownKept
<1>6. ASSUME NEW p \in Processes, Deliver(p)
      PROVE  CooldownKept'
    <2>1. /\ calm /\ UNCHANGED <<up, seen, loaded, cache, durable>>
          /\ pc[p] = "deliver" /\ handling[p] \in Keys
          /\ pc'[p] = "idle"
          /\ \A q \in Processes \ {p} : pc'[q] = pc[q] /\ handling'[q] = handling[q]
        BY <1>0, <1>6 DEF Deliver
    <2>2. \A k \in Keys : \/ lastSent'[k] = lastSent[k]
                          \/ k = handling[p] /\ lastSent'[k] = seen[p][k]
        BY <1>0, <1>6 DEF Deliver, Stamps
    <2>3. \A k \in Recurring : lastSent'[k] <= durable'[k]
        BY <2>1, <2>2 DEF CooldownKept
    <2> QED
        BY <2>1, <2>3 DEF CooldownKept
<1>7. ASSUME NEW p \in Processes, Start(p)
      PROVE  CooldownKept'
    <2>1. /\ calm /\ UNCHANGED <<seen, loaded, cache, durable, pc, handling, lastSent>>
          /\ up' = [up EXCEPT ![p] = TRUE] /\ \A q \in Processes : ~up[q]
        BY <1>7 DEF Start
    <2> QED
        BY <1>0, <2>1 DEF CooldownKept
<1>8. ASSUME NEW p \in Processes, Stop(p)
      PROVE  CooldownKept'
    <2>1. /\ calm /\ UNCHANGED <<durable, lastSent>>
          /\ ~up'[p] /\ ~loaded'[p] /\ pc'[p] = "idle"
          /\ \A q \in Processes \ {p} :
                /\ up'[q] = up[q] /\ loaded'[q] = loaded[q] /\ pc'[q] = pc[q]
                /\ cache'[q] = cache[q] /\ seen'[q] = seen[q] /\ handling'[q] = handling[q]
        BY <1>0, <1>8 DEF Stop
    <2> QED
        BY <2>1 DEF CooldownKept
<1>9. CASE Tick \/ UNCHANGED vars
    BY <1>9 DEF Tick, vars, CooldownKept
<1> QED
    BY <1>1, <1>2, <1>3, <1>4, <1>5, <1>6, <1>7, <1>8, <1>9 DEF Next, Arrive

\* The cooldown of a delivered alert outlives the revision that opened it: while
\* nothing fails, no other lets the identity through inside it.
THEOREM CooldownCorrect == Spec => CooldownSurvivesRedeploy
<1> DEFINE IInv == MemoryIsVolatile /\ (calm => CooldownKept)
<1>1. Init => IInv
    BY DedupAssumption DEF Init, MemoryIsVolatile, CooldownKept, NoStamps, NoTime
<1>2. TypeOK /\ StampsAreClaims /\ IInv /\ [Next]_vars => IInv'
    BY VolatileStep, KeptStep
<1>3. TypeOK /\ IInv /\ [Next]_vars =>
        [\A p \in Processes, k \in Recurring :
            Claim(p, k) /\ calm' =>
                lastSent[k] = NoTime \/ now - lastSent[k] >= Ttl[k]]_vars
    <2> SUFFICES ASSUME TypeOK, calm => CooldownKept,
                        NEW p \in Processes, NEW k \in Recurring, Claim(p, k), calm'
                 PROVE  lastSent[k] = NoTime \/ now - lastSent[k] >= Ttl[k]
        OBVIOUS
    <2>1. PICK fails \in Failures : ~ShouldSuppress(CooldownView(p, k, fails), k) /\ Notes(fails)
        BY DEF Claim
    <2>2. calm /\ fails = FALSE
        BY <2>1, DedupAssumption DEF Notes, Failures, TypeOK
    <2>3. k \in Keys /\ now \in Nat /\ Ttl[k] \in Nat /\ lastSent[k] \in Time /\ durable[k] \in Time
        BY DedupAssumption DEF TypeOK, Stamps
    <2> DEFINE view == CooldownView(p, k, FALSE)
    <2>4. view \in Stamps /\ durable[k] <= view[k] /\ lastSent[k] <= durable[k]
        BY <2>2, <2>3, CalmViewIsFresh DEF CooldownKept
    <2>5. view[k] = NoTime \/ ~(now - view[k] < Ttl[k])
        BY <2>1, <2>2 DEF ShouldSuppress
    <2>6. view[k] \in Time
        BY <2>3, <2>4 DEF Stamps
    <2> HIDE DEF view
    <2> QED
        BY <2>3, <2>4, <2>5, <2>6 DEF Time, NoTime
<1> HIDE DEF IInv
<1> QED
    BY <1>1, <1>2, <1>3, TypeCorrect, StampsCorrect, PTL DEF Spec, CooldownSurvivesRedeploy

=============================================================================
